---- MODULE Spec2Model ----
(***************************************************************************)
(* A model of appshot's generation engine (src/generate.mjs): main, the    *)
(* per-size scheduler processSize with its helpers launchBrowser and       *)
(* createFreshPage, the per-task retry recursion processScreenshot, and    *)
(* the pure path helpers.  Strings whose characters matter (size labels,   *)
(* paths) are sequences of one-character strings.                          *)
(***************************************************************************)
EXTENDS Integers, Sequences, FiniteSets, TLC

VARIABLES
  config,            \* the parsed config.json (generate.mjs:62)
  files,             \* raw screenshots present on disk, as <<rawDir, locale, id>>
  faults,            \* environment faults injected so far (thrown awaits)
  mainPc,            \* position of main()
  exitCode,          \* -1 while the process runs, else its exit status
  totalScreenshots,  \* main's totalScreenshots (generate.mjs:582)
  sizeResults,       \* main's sizeResults (generate.mjs:594)
  seqIdx,            \* index of main's for-loop over ipadSizes
  aggSuccess,        \* main's successCount (generate.mjs:611)
  aggFailure,        \* main's failureCount (generate.mjs:612)
  proc,              \* one processSize invocation per configured size
  pathSt,            \* state of the output-path computation (SpecPath)
  ui,                \* state of the remote page and of one UI pass (SpecUI)
  det,               \* state of the resolution of the remote UI address (SpecUrl)
  att,               \* one processScreenshot call step by step, with the remote
                     \* list and the download listeners (SpecAttempt)
  canvas,            \* one waitForCanvasRender call (SpecRender)
  sh                 \* one run of a shell script: pipeline.sh (SpecPipeline),
                     \* organize_output (SpecOrganize), the extraction loop (SpecExtract)

runVars == <<config, files, faults, mainPc, exitCode, totalScreenshots,
             sizeResults, seqIdx, aggSuccess, aggFailure, proc>>
vars == <<config, files, faults, mainPc, exitCode, totalScreenshots,
          sizeResults, seqIdx, aggSuccess, aggFailure, proc, pathSt, ui, det, att, canvas, sh>>

(***************************************************************************)
(* Bounds of the model.                                                    *)
(***************************************************************************)
MaxFaults == 4     \* thrown awaits the environment may inject in one run
MaxMissing == 1    \* raw screenshots that may be absent from disk
MaxLen == 2        \* length of the generated size labels (SpecPath)

(***************************************************************************)
(* Program constants.                                                      *)
(***************************************************************************)
MAX_RETRIES == 3
RefreshIpad == 6
RefreshOther == 12

(***************************************************************************)
(* Strings as character sequences.                                         *)
(***************************************************************************)
Str_iphone == <<"i", "p", "h", "o", "n", "e">>
Str_ipad == <<"i", "p", "a", "d">>
IPhone69 == <<"i", "P", "h", "o", "n", "e", " ", "6", ".", "9", "\"">>
IPhone67 == <<"i", "P", "h", "o", "n", "e", " ", "6", ".", "7", "\"">>
IPad13 == <<"i", "P", "a", "d", " ", "1", "3", "\"">>
MacLabel == <<"M", "a", "c">>

\* String.prototype.toLowerCase on one character
LowerChar(c) ==
  CASE c = "P" -> "p"
    [] c = "I" -> "i"
    [] c = "M" -> "m"
    [] c = "A" -> "a"
    [] OTHER -> c

toLowerCase(str) == [i \in 1..Len(str) |-> LowerChar(str[i])]

\* String.prototype.includes
includes(str, sub) ==
  \E i \in 0..(Len(str) - Len(sub)) :
    \A j \in 1..Len(sub) : str[i + j] = sub[j]

RECURSIVE SumSeq(_)
SumSeq(seq) == IF seq = <<>> THEN 0 ELSE seq[1] + SumSeq(Tail(seq))

(***************************************************************************)
(* The configurations the runs are drawn from.  Every configuration has at *)
(* least one artifact: main reads config.screenshots[0] unconditionally.   *)
(***************************************************************************)
Shot(id, locales) == [id |-> id, titles |-> locales]
SizeOf(device) == [device |-> device, rawDir |-> "raw"]

ShotIds ==
  <<"home", "settings", "profile", "search", "detail", "list", "map", "cart",
    "login", "feed", "chat", "help", "about">>

Configs ==
  { \* 2 artifacts x 2 locales, one preset size
    [screenshots |-> <<Shot("home", <<"en", "de">>), Shot("settings", <<"en", "de">>)>>,
     sizes |-> <<SizeOf(IPhone69)>>],
    \* artifacts that do not declare the same locale set
    [screenshots |-> <<Shot("home", <<"en", "de">>), Shot("settings", <<"en">>)>>,
     sizes |-> <<SizeOf(IPhone69)>>],
    [screenshots |-> <<Shot("home", <<"en">>), Shot("settings", <<"en", "de">>)>>,
     sizes |-> <<SizeOf(IPad13)>>],
    \* a parallel wave of two sizes followed by two sequential sizes
    [screenshots |-> <<Shot("home", <<"en">>)>>,
     sizes |-> <<SizeOf(IPhone69), SizeOf(IPad13), SizeOf(IPhone67), SizeOf(MacLabel)>>],
    \* more tasks than the refresh interval of a large-canvas size (7 > 6)
    [screenshots |-> [i \in 1..(RefreshIpad + 1) |-> Shot(ShotIds[i], <<"en">>)],
     sizes |-> <<SizeOf(IPad13)>>],
    \* more tasks than the refresh interval of a handheld size (13 > 12)
    [screenshots |-> [i \in 1..(RefreshOther + 1) |-> Shot(ShotIds[i], <<"en">>)],
     sizes |-> <<SizeOf(IPhone69)>>],
    \* no size at all
    [screenshots |-> <<Shot("home", <<"en">>)>>, sizes |-> <<>>] }

\* The (artifact, locale) pairs in the order of processSize's two loops
RECURSIVE TasksOf(_)
TasksOf(shots) ==
  IF shots = <<>> THEN <<>>
  ELSE [i \in 1..Len(shots[1].titles) |->
          [id |-> shots[1].id, locale |-> shots[1].titles[i]]]
       \o TasksOf(Tail(shots))

Tasks == TasksOf(config.screenshots)
Sizes == 1..Len(config.sizes)

\* rawPath of processScreenshot
RawPath(size, task) == <<size.rawDir, task.locale, task.id>>

AllRawPaths(cfg) ==
  {RawPath(cfg.sizes[s], TasksOf(cfg.screenshots)[t]) :
     s \in 1..Len(cfg.sizes), t \in 1..Len(TasksOf(cfg.screenshots))}

\* The raw files that may be absent: those of the first artifact
MissingCandidates(cfg) ==
  {RawPath(cfg.sizes[s], [id |-> cfg.screenshots[1].id, locale |-> cfg.screenshots[1].titles[i]]) :
     s \in 1..Len(cfg.sizes),
     i \in 1..Len(cfg.screenshots[1].titles)}

(***************************************************************************)
(* The wave partition of main (generate.mjs:592-593), as size indices.     *)
(***************************************************************************)
IsIphone(size) == includes(toLowerCase(size.device), Str_iphone)

RECURSIVE IndicesWhere(_, _, _)
IndicesWhere(sizes, i, wantIphone) ==
  IF i > Len(sizes) THEN <<>>
  ELSE (IF IsIphone(sizes[i]) = wantIphone THEN <<i>> ELSE <<>>)
       \o IndicesWhere(sizes, i + 1, wantIphone)

iphoneSizes == IndicesWhere(config.sizes, 1, TRUE)
ipadSizes == IndicesWhere(config.sizes, 1, FALSE)

\* CONTEXT_REFRESH_INTERVAL of processSize (generate.mjs:509-510)
isIpad(size) == includes(toLowerCase(size.device), Str_ipad)
CONTEXT_REFRESH_INTERVAL(size) == IF isIpad(size) THEN RefreshIpad ELSE RefreshOther

(***************************************************************************)
(* The state of one processSize invocation.                                *)
(***************************************************************************)
InitProc ==
  [pc |-> "idle",            \* position in processSize / processScreenshot
   createFor |-> "none",     \* the call site createFreshPage returns to
   call |-> 0,               \* 1: the call of line 535, 2: the one of line 543
   attempt |-> 0,            \* processScreenshot's attempt parameter
   taskIdx |-> 0,            \* position of the two loops in Tasks
   successCount |-> 0,
   failureCount |-> 0,
   processedInContext |-> 0,
   success |-> FALSE,
   throwing |-> FALSE,       \* an error is propagating through the finally
   browser |-> 0,            \* 0 is null, else the handle's serial number
   context |-> 0,
   page |-> 0,               \* the context the current page belongs to
   nBrowsers |-> 0,
   nContexts |-> 0,
   liveBrowsers |-> {},
   liveContexts |-> {},
   closeCalled |-> {},       \* contexts on which close() has been called
   browserCloseCalled |-> {}, \* browsers on which close() has been called
   navigated |-> {},         \* pages handed to the scheduler after goto resolved (488, 501)
   sized |-> {},             \* pages handed over after selectOutputSize resolved (490, 503)
   tries |-> 0,              \* creation attempts of the current createFreshPage call
   relaunches |-> 0,         \* launchBrowser calls of the current createFreshPage call
   createdBeforeClose |-> FALSE, \* a context was created while the current one had not been closed
   log |-> <<>>,             \* <<call, attempt>> of the attempts of the current task
   stepLog |-> <<>>,         \* steps completed in the current attempt
   reloads |-> 0,            \* page reloads performed for the current task
   thrown |-> 0,             \* processScreenshot calls of the current task that threw
   recoveries |-> 0,         \* executions of the recovery of lines 537-541
   taskPage |-> <<>>,        \* per finished task, the page it last ran on
   outcome |-> <<>>]         \* per finished task, "Success" or "Failed"

Running == exitCode = -1

\* Whether an awaited operation succeeds; a failure uses up one fault.
Outcomes == IF faults < MaxFaults THEN {TRUE, FALSE} ELSE {TRUE}
Count(ok) == IF ok THEN faults ELSE faults + 1

MissingSets(cfg) ==
  {m \in SUBSET MissingCandidates(cfg) : Cardinality(m) <= MaxMissing}

StartOfRun ==
  /\ faults = 0
  /\ mainPc = "start"
  /\ exitCode = -1
  /\ totalScreenshots = 0
  /\ sizeResults = <<>>
  /\ seqIdx = 0
  /\ aggSuccess = 0
  /\ aggFailure = 0
  /\ proc = [s \in Sizes |-> InitProc]

InitRun ==
  /\ config \in Configs
  /\ files \in {AllRawPaths(config) \ m : m \in MissingSets(config)}
  /\ StartOfRun

(***************************************************************************)
(* main (generate.mjs:572-633).                                            *)
(***************************************************************************)
\* main().catch: any rejection of main ends the process with status 1
MainCatch ==
  /\ mainPc' = "exited"
  /\ exitCode' = 1

Result(p) == [successCount |-> p.successCount, failureCount |-> p.failureCount]

\* Aggregate without the process.exit(1) of line 623
AggregateNoExit(results) ==
  /\ aggSuccess' = SumSeq([i \in 1..Len(results) |-> results[i].successCount])
  /\ aggFailure' = SumSeq([i \in 1..Len(results) |-> results[i].failureCount])
  /\ exitCode' = 0
  /\ mainPc' = "done"

\* lines 610-626: aggregate, print the summary, exit
Aggregate(results) ==
  /\ aggSuccess' = SumSeq([i \in 1..Len(results) |-> results[i].successCount])
  /\ aggFailure' = SumSeq([i \in 1..Len(results) |-> results[i].failureCount])
  /\ exitCode' = IF aggFailure' > 0 THEN 1 ELSE 0
  /\ mainPc' = "done"

\* lines 604-608 and what follows: start the k-th sequential size, or finish
StartSeqOrFinish(results, k) ==
  /\ sizeResults' = results
  /\ seqIdx' = k
  /\ IF k <= Len(ipadSizes)
       THEN /\ proc' = [proc EXCEPT ![ipadSizes[k]].pc = "launch"]
            /\ mainPc' = "seq"
            /\ UNCHANGED <<aggSuccess, aggFailure, exitCode>>
       ELSE /\ Aggregate(results)
            /\ UNCHANGED proc

\* lines 581-600: the total, the partition, the start of the parallel wave
MainStart ==
  /\ Running
  /\ mainPc = "start"
  /\ totalScreenshots' = Len(config.screenshots)
                          * Len(config.screenshots[1].titles)
                          * Len(config.sizes)
  /\ IF Len(iphoneSizes) > 0
       THEN /\ proc' = [s \in Sizes |->
                          IF IsIphone(config.sizes[s])
                            THEN [proc[s] EXCEPT !.pc = "launch"]
                            ELSE proc[s]]
            /\ mainPc' = "wave1"
            /\ UNCHANGED <<sizeResults, seqIdx, aggSuccess, aggFailure, exitCode>>
       ELSE StartSeqOrFinish(<<>>, 1)
  /\ UNCHANGED <<config, files, faults, pathSt, ui, det, att, canvas, sh>>

\* MainAfterWave1 with Promise.race for Promise.all: main goes on as soon as
\* one parallel size has returned
MainAfterWave1Race ==
  /\ Running
  /\ mainPc = "wave1"
  /\ \E i \in 1..Len(iphoneSizes) : proc[iphoneSizes[i]].pc = "returned"
  /\ StartSeqOrFinish([i \in 1..Len(iphoneSizes) |-> Result(proc[iphoneSizes[i]])], 1)
  /\ UNCHANGED <<config, files, faults, totalScreenshots, pathSt, ui, det, att, canvas, sh>>

\* lines 598-601: Promise.all resolves once every parallel size has returned
MainAfterWave1 ==
  /\ Running
  /\ mainPc = "wave1"
  /\ \A i \in 1..Len(iphoneSizes) : proc[iphoneSizes[i]].pc = "returned"
  /\ StartSeqOrFinish([i \in 1..Len(iphoneSizes) |-> Result(proc[iphoneSizes[i]])], 1)
  /\ UNCHANGED <<config, files, faults, totalScreenshots, pathSt, ui, det, att, canvas, sh>>

\* lines 606-607: one sequential size has returned
MainAfterSeq ==
  /\ Running
  /\ mainPc = "seq"
  /\ proc[ipadSizes[seqIdx]].pc = "returned"
  /\ StartSeqOrFinish(Append(sizeResults, Result(proc[ipadSizes[seqIdx]])), seqIdx + 1)
  /\ UNCHANGED <<config, files, faults, totalScreenshots, pathSt, ui, det, att, canvas, sh>>

(***************************************************************************)
(* processSize (generate.mjs:465-567) and processScreenshot (405-460).     *)
(***************************************************************************)
\* Keep with successCount and failureCount declared once for all sizes
\* (module-level variables) instead of inside processSize
KeepShared(s, p) ==
  /\ proc' = [t \in Sizes |->
                IF t = s THEN p
                ELSE [proc[t] EXCEPT !.successCount = p.successCount,
                                     !.failureCount = p.failureCount]]
  /\ UNCHANGED <<mainPc, exitCode>>

\* A step of size s that leaves main where it is
Keep(s, p) ==
  /\ proc' = [proc EXCEPT ![s] = p]
  /\ UNCHANGED <<mainPc, exitCode>>

\* processSize rejects: Promise.all / the await of main rejects, main rejects,
\* and main().catch ends the process (lines 598, 606, 630-633)
Reject(s, p) ==
  /\ proc' = [proc EXCEPT ![s] = [p EXCEPT !.pc = "threw"]]
  /\ MainCatch

SizeFrame ==
  UNCHANGED <<config, files, totalScreenshots, sizeResults, seqIdx, aggSuccess,
              aggFailure, pathSt, ui, det, att, canvas, sh>>

\* chromium.launch resolved (line 474)
NewBrowser(p) ==
  [p EXCEPT !.nBrowsers = @ + 1,
            !.browser = p.nBrowsers + 1,
            !.liveBrowsers = @ \cup {p.nBrowsers + 1}]

\* browser.newContext resolved (lines 483, 496); the handle is still local
NewContext(p) ==
  [p EXCEPT !.nContexts = @ + 1,
            !.liveContexts = @ \cup {p.nContexts + 1},
            !.createdBeforeClose =
               @ \/ (p.context # 0 /\ p.context \notin p.closeCalled)]

\* browser.close() (lines 473, 563): a browser that closes takes its contexts along
BrowserClosed(p, ok) ==
  LET q == [p EXCEPT !.browserCloseCalled = @ \cup {p.browser}] IN
    IF ok THEN [q EXCEPT !.liveBrowsers = @ \ {p.browser}, !.liveContexts = {}]
    ELSE q

\* context.close() (lines 528, 539, 560)
ContextClosed(p, ok) ==
  [p EXCEPT !.closeCalled = @ \cup {p.context},
            !.liveContexts = IF ok THEN @ \ {p.context} ELSE @]

\* entry of processScreenshot with attempt n: the task is in Attempting(n)
Attempting(p, call, n) ==
  [p EXCEPT !.call = call,
            !.attempt = n,
            !.pc = "access",
            !.log = Append(@, <<call, n>>),
            !.stepLog = <<>>]

\* BeginCall with the call of line 543 passing on the attempt number reached
BeginCallContinued(p, first) ==
  IF first
    THEN Attempting([p EXCEPT !.success = FALSE, !.log = <<>>, !.reloads = 0,
                              !.thrown = 0], 1, 1)
    ELSE Attempting(p, 2, p.attempt + 1)

\* the call of line 535 (first = TRUE) or of line 543
BeginCall(p, first) ==
  IF first
    THEN Attempting([p EXCEPT !.success = FALSE, !.log = <<>>, !.reloads = 0,
                              !.thrown = 0], 1, 1)
    ELSE Attempting(p, 2, 1)

\* ReturnFromCall without the await of lines 535 and 543: the loop goes on
\* before the task is accounted for
ReturnNotAwaited(p, val) == [p EXCEPT !.success = val, !.pc = "loop"]

\* processScreenshot returned val to processSize (lines 535, 543)
ReturnFromCall(p, val) == [p EXCEPT !.success = val, !.pc = "account"]

\* the context and page of lines 483-490 / 496-503 when the creation got as far
\* as r before it is handed over: the page is navigated once goto resolved and
\* has its size selected once selectOutputSize resolved (r = "ok": all did)
CreatedContext(p, r) ==
  [NewContext(p) EXCEPT
     !.navigated = IF r \in {"selectOutputSize", "ok"} THEN @ \cup {p.nContexts + 1} ELSE @,
     !.sized = IF r = "ok" THEN @ \cup {p.nContexts + 1} ELSE @]

\* createFreshPage hands { context, page } to one of its three call sites
\* (lines 517-519, 529-530, 540-543); r is how far the creation got
ReturnPage(p, r) ==
  LET q == [CreatedContext(p, r) EXCEPT !.context = p.nContexts + 1,
                                        !.page = p.nContexts + 1,
                                        !.processedInContext = 0,
                                        !.createFor = "none"]
  IN  CASE p.createFor = "init" -> [q EXCEPT !.pc = "loop"]
        [] p.createFor = "refresh" -> BeginCall(q, TRUE)
        [] p.createFor = "recover" -> BeginCall([q EXCEPT !.recoveries = @ + 1], FALSE)

\* lines 491, 504: the return after every step of the creation resolved
PageCreated(p) == ReturnPage(p, "ok")

\* CreateThrew with the catch of createFreshPage calling createFreshPage
\* again when its own creation attempt fails
CreateThrewRetry(p) ==
  IF p.pc = "recreate"
    THEN [p EXCEPT !.pc = "relaunchClose"]
    ELSE [p EXCEPT !.throwing = TRUE, !.pc = "closeBrowser", !.createFor = "none"]

\* createFreshPage threw: the error leaves the try of line 512 through its finally
CreateThrew(p) == [p EXCEPT !.throwing = TRUE, !.pc = "closeBrowser", !.createFor = "none"]

\* how an attempt to create a session ends: the session ("ok"), or the step
\* that threw: newContext, goto (or newPage before it), selectOutputSize
CreateResults ==
  IF faults < MaxFaults THEN {"ok", "newContext", "goto", "selectOutputSize"} ELSE {"ok"}

\* line 508: launchBrowser with browser = null
LaunchBrowser(s) ==
  /\ Running
  /\ proc[s].pc = "launch"
  /\ \E ok \in Outcomes :
       /\ faults' = Count(ok)
       /\ IF ok
            THEN Keep(s, [NewBrowser(proc[s]) EXCEPT !.pc = "create", !.createFor = "init"])
            ELSE Reject(s, proc[s])
  /\ SizeFrame

\* lines 482-491: the first attempt of createFreshPage
CreateFreshPage(s) ==
  /\ Running
  /\ proc[s].pc = "create"
  /\ LET p == [proc[s] EXCEPT !.tries = 1, !.relaunches = 0] IN
       \E r \in CreateResults :
         /\ faults' = Count(r = "ok")
         /\ CASE r = "ok" -> Keep(s, PageCreated(p))
              [] r = "newContext" -> Keep(s, [p EXCEPT !.pc = "relaunchClose"])
              [] OTHER -> Keep(s, [NewContext(p) EXCEPT !.pc = "relaunchClose"])
  /\ SizeFrame

\* RelaunchClose without the browser.close() of line 473
RelaunchWithoutClose(s) ==
  /\ Running
  /\ proc[s].pc = "relaunchClose"
  /\ Keep(s, [proc[s] EXCEPT !.pc = "relaunch", !.relaunches = @ + 1])
  /\ UNCHANGED faults
  /\ SizeFrame

\* lines 495, 473: launchBrowser closes the old browser, swallowing a failure
RelaunchClose(s) ==
  /\ Running
  /\ proc[s].pc = "relaunchClose"
  /\ \E ok \in Outcomes :
       /\ faults' = Count(ok)
       /\ Keep(s, [BrowserClosed(proc[s], ok) EXCEPT !.pc = "relaunch",
                                                     !.relaunches = @ + 1])
  /\ SizeFrame

\* line 474 inside createFreshPage's catch
Relaunch(s) ==
  /\ Running
  /\ proc[s].pc = "relaunch"
  /\ \E ok \in Outcomes :
       /\ faults' = Count(ok)
       /\ IF ok
            THEN Keep(s, [NewBrowser(proc[s]) EXCEPT !.pc = "recreate"])
            ELSE Keep(s, CreateThrew(proc[s]))
  /\ SizeFrame

\* Recreate with the selectOutputSize of line 503 wrapped in a try/catch that
\* swallows its error
RecreateUnchecked(s) ==
  /\ Running
  /\ proc[s].pc = "recreate"
  /\ LET p == [proc[s] EXCEPT !.tries = @ + 1] IN
       \E r \in CreateResults :
         /\ faults' = Count(r = "ok")
         /\ CASE r = "ok" -> Keep(s, PageCreated(p))
              [] r = "newContext" -> Keep(s, CreateThrew(p))
              [] r = "goto" -> Keep(s, CreateThrew(NewContext(p)))
              [] r = "selectOutputSize" -> Keep(s, ReturnPage(p, r))
  /\ SizeFrame

\* lines 496-504: the second attempt of createFreshPage
Recreate(s) ==
  /\ Running
  /\ proc[s].pc = "recreate"
  /\ LET p == [proc[s] EXCEPT !.tries = @ + 1] IN
       \E r \in CreateResults :
         /\ faults' = Count(r = "ok")
         /\ CASE r = "ok" -> Keep(s, PageCreated(p))
              [] r = "newContext" -> Keep(s, CreateThrew(p))
              [] OTHER -> Keep(s, CreateThrew(NewContext(p)))
  /\ SizeFrame

\* NeedsRefresh with > for >=
NeedsRefreshLate(p, size) == p.processedInContext > CONTEXT_REFRESH_INTERVAL(size)

\* line 526
NeedsRefresh(p, size) == p.processedInContext >= CONTEXT_REFRESH_INTERVAL(size)

\* lines 522-535: the head of the two loops
Loop(s) ==
  /\ Running
  /\ proc[s].pc = "loop"
  /\ LET p == proc[s] IN
       IF p.taskIdx >= Len(Tasks)
         THEN Keep(s, [p EXCEPT !.pc = "closeCtx"])
         ELSE LET q == [p EXCEPT !.taskIdx = @ + 1, !.thrown = 0] IN
              IF NeedsRefresh(q, config.sizes[s])
                THEN Keep(s, [q EXCEPT !.pc = "refreshClose"])
                ELSE Keep(s, BeginCall(q, TRUE))
  /\ UNCHANGED faults
  /\ SizeFrame

\* RefreshClose without the context.close() of line 528
RefreshWithoutClose(s) ==
  /\ Running
  /\ proc[s].pc = "refreshClose"
  /\ Keep(s, [proc[s] EXCEPT !.pc = "create", !.createFor = "refresh"])
  /\ UNCHANGED faults
  /\ SizeFrame

\* line 528
RefreshClose(s) ==
  /\ Running
  /\ proc[s].pc = "refreshClose"
  /\ \E ok \in Outcomes :
       /\ faults' = Count(ok)
       /\ Keep(s, [ContextClosed(proc[s], ok) EXCEPT !.pc = "create", !.createFor = "refresh"])
  /\ SizeFrame

\* the awaited steps of one attempt, in the order of lines 427-440
StepOrder ==
  <<"reload", "selectOutputSize", "uploadScreenshot", "configureBackground",
    "configureDevice", "configureText", "exportScreenshot">>

StepNames == {StepOrder[i] : i \in 1..Len(StepOrder)}

\* Caught with <= for < in the test of line 448
CaughtOneMore(p) ==
  IF p.attempt <= MAX_RETRIES
    THEN [p EXCEPT !.pc = "retryReload"]
    ELSE ReturnFromCall(p, FALSE)

\* lines 445-458: the catch of processScreenshot, up to its first await
Caught(p) ==
  IF p.attempt < MAX_RETRIES
    THEN [p EXCEPT !.pc = "retryReload"]
    ELSE ReturnFromCall(p, FALSE)

\* CheckAccess without the inner try/catch of lines 417-422: the rejection of
\* access reaches the catch of line 445
CheckAccessUnguarded(s) ==
  /\ Running
  /\ proc[s].pc = "access"
  /\ LET p == proc[s] IN
       IF RawPath(config.sizes[s], Tasks[p.taskIdx]) \in files
         THEN Keep(s, [p EXCEPT !.pc = StepOrder[1]])
         ELSE Keep(s, Caught(p))
  /\ UNCHANGED faults
  /\ SizeFrame

\* lines 417-422: the raw screenshot is looked up before anything else
CheckAccess(s) ==
  /\ Running
  /\ proc[s].pc = "access"
  /\ LET p == proc[s] IN
       IF RawPath(config.sizes[s], Tasks[p.taskIdx]) \in files
         THEN Keep(s, [p EXCEPT !.pc = StepOrder[1]])
         ELSE Keep(s, ReturnFromCall(p, FALSE))
  /\ UNCHANGED faults
  /\ SizeFrame

\* UIStep with exportScreenshot awaited outside the try of lines 415-443
UIStepExportUncaught(s) ==
  /\ Running
  /\ proc[s].pc \in StepNames
  /\ LET p == [proc[s] EXCEPT !.reloads = IF proc[s].pc = "reload" THEN @ + 1 ELSE @]
         k == Len(p.stepLog) + 1
     IN  \E ok \in Outcomes :
           /\ faults' = Count(ok)
           /\ IF ok
                THEN LET q == [p EXCEPT !.stepLog = Append(@, p.pc)] IN
                     IF k = Len(StepOrder)
                       THEN Keep(s, ReturnFromCall(q, TRUE))
                       ELSE Keep(s, [q EXCEPT !.pc = StepOrder[k + 1]])
                ELSE IF p.pc = "exportScreenshot"
                       THEN Keep(s, [p EXCEPT !.thrown = @ + 1,
                                              !.success = FALSE,
                                              !.pc = IF p.call = 1 THEN "recoverClose"
                                                                   ELSE "account"])
                       ELSE Keep(s, Caught(p))
  /\ SizeFrame

\* lines 427-443: one awaited step of the attempt
UIStep(s) ==
  /\ Running
  /\ proc[s].pc \in StepNames
  /\ LET p == [proc[s] EXCEPT !.reloads = IF proc[s].pc = "reload" THEN @ + 1 ELSE @]
         k == Len(p.stepLog) + 1
     IN  \E ok \in Outcomes :
           /\ faults' = Count(ok)
           /\ IF ok
                THEN LET q == [p EXCEPT !.stepLog = Append(@, p.pc)] IN
                     IF k = Len(StepOrder)
                       THEN Keep(s, ReturnFromCall(q, TRUE))
                       ELSE Keep(s, [q EXCEPT !.pc = StepOrder[k + 1]])
                ELSE Keep(s, Caught(p))
  /\ SizeFrame

\* processScreenshot threw to processSize: lines 536-541 or 544-547
CallThrew(p) ==
  IF p.call = 1
    THEN [p EXCEPT !.thrown = @ + 1, !.pc = "recoverClose"]
    ELSE [p EXCEPT !.thrown = @ + 1, !.success = FALSE, !.pc = "account"]

\* lines 450-454: the wait and reload that prepare the next attempt
RetryReload(s) ==
  /\ Running
  /\ proc[s].pc = "retryReload"
  /\ LET p == [proc[s] EXCEPT !.reloads = @ + 1] IN
       \E ok \in Outcomes :
         /\ faults' = Count(ok)
         /\ IF ok
              THEN Keep(s, Attempting(p, p.call, p.attempt + 1))
              ELSE Keep(s, CallThrew(p))
  /\ SizeFrame

\* line 539
RecoverClose(s) ==
  /\ Running
  /\ proc[s].pc = "recoverClose"
  /\ \E ok \in Outcomes :
       /\ faults' = Count(ok)
       /\ Keep(s, [ContextClosed(proc[s], ok) EXCEPT !.pc = "create", !.createFor = "recover"])
  /\ SizeFrame

\* Account with the failure counter incremented before the test of line 550
AccountFailureFirst(s) ==
  /\ Running
  /\ proc[s].pc = "account"
  /\ LET p == proc[s] IN
       Keep(s, [p EXCEPT !.processedInContext = @ + 1,
                         !.successCount = IF p.success THEN @ + 1 ELSE @,
                         !.failureCount = @ + 1,
                         !.outcome = Append(@, IF p.success THEN "Success" ELSE "Failed"),
                         !.taskPage = Append(@, p.page),
                         !.pc = "loop"])
  /\ UNCHANGED faults
  /\ SizeFrame

\* lines 550-555
Account(s) ==
  /\ Running
  /\ proc[s].pc = "account"
  /\ LET p == proc[s] IN
       Keep(s, [p EXCEPT !.processedInContext = @ + 1,
                         !.successCount = IF p.success THEN @ + 1 ELSE @,
                         !.failureCount = IF p.success THEN @ ELSE @ + 1,
                         !.outcome = Append(@, IF p.success THEN "Success" ELSE "Failed"),
                         !.taskPage = Append(@, p.page),
                         !.pc = "loop"])
  /\ UNCHANGED faults
  /\ SizeFrame

\* CloseContext without the try/catch around context.close() of line 560
CloseContextUnguarded(s) ==
  /\ Running
  /\ proc[s].pc = "closeCtx"
  /\ \E ok \in Outcomes :
       /\ faults' = Count(ok)
       /\ Keep(s, [ContextClosed(proc[s], ok) EXCEPT !.pc = "closeBrowser",
                                                     !.throwing = ~ok])
  /\ SizeFrame

\* line 560
CloseContext(s) ==
  /\ Running
  /\ proc[s].pc = "closeCtx"
  /\ \E ok \in Outcomes :
       /\ faults' = Count(ok)
       /\ Keep(s, [ContextClosed(proc[s], ok) EXCEPT !.pc = "closeBrowser"])
  /\ SizeFrame

\* CloseBrowser with browser.close() after the try block instead of in a
\* finally: an error leaving the try skips it
CloseBrowserNoFinally(s) ==
  /\ Running
  /\ proc[s].pc = "closeBrowser"
  /\ IF proc[s].throwing
       THEN /\ Reject(s, proc[s])
            /\ UNCHANGED faults
       ELSE \E ok \in Outcomes :
              /\ faults' = Count(ok)
              /\ Keep(s, [BrowserClosed(proc[s], ok) EXCEPT !.pc = "returned"])
  /\ SizeFrame

\* lines 562-566: the finally, then the return or the rethrow
CloseBrowser(s) ==
  /\ Running
  /\ proc[s].pc = "closeBrowser"
  /\ \E ok \in Outcomes :
       /\ faults' = Count(ok)
       /\ LET p == BrowserClosed(proc[s], ok) IN
            IF p.throwing
              THEN Reject(s, p)
              ELSE Keep(s, [p EXCEPT !.pc = "returned"])
  /\ SizeFrame

\* the values of the variables a specification does not use
NoPath == [locale |-> <<>>, device |-> <<>>, id |-> <<>>, attempt |-> -1, outputPath |-> <<>>]
NoUI == [pc |-> "unused"]
NoConfig == [screenshots |-> <<>>, sizes |-> <<>>]
NoDet == [pc |-> "unused"]
NoAtt == [pc |-> "unused"]
NoCanvas == [pc |-> "unused"]
NoSh == [pc |-> "unused"]

Init ==
  /\ InitRun
  /\ pathSt = NoPath
  /\ ui = NoUI
  /\ det = NoDet
  /\ att = NoAtt
  /\ canvas = NoCanvas
  /\ sh = NoSh

Next ==
  \/ MainStart
  \/ MainAfterWave1
  \/ MainAfterSeq
  \/ \E s \in Sizes : LaunchBrowser(s)
  \/ \E s \in Sizes : CreateFreshPage(s)
  \/ \E s \in Sizes : RelaunchClose(s)
  \/ \E s \in Sizes : Relaunch(s)
  \/ \E s \in Sizes : Recreate(s)
  \/ \E s \in Sizes : Loop(s)
  \/ \E s \in Sizes : RefreshClose(s)
  \/ \E s \in Sizes : CheckAccess(s)
  \/ \E s \in Sizes : UIStep(s)
  \/ \E s \in Sizes : RetryReload(s)
  \/ \E s \in Sizes : RecoverClose(s)
  \/ \E s \in Sizes : Account(s)
  \/ \E s \in Sizes : CloseContext(s)
  \/ \E s \in Sizes : CloseBrowser(s)

Spec == Init /\ [][Next]_vars

(***************************************************************************)
(* Properties of the run (specification Spec).                             *)
(***************************************************************************)
FilePresent(s, k) == RawPath(config.sizes[s], Tasks[k]) \in files

\* processSize is inside the processing of its current task
InTask(p) ==
  \/ p.pc \in StepNames \cup {"access", "retryReload", "recoverClose", "account"}
  \/ p.createFor = "recover"

RunEnded == exitCode # -1

\* C1: when main reaches its summary, the aggregated successCount +
\* failureCount equals the total main computed and prints there,
\* |artifacts| x |locales of the first artifact| x |sizes|.
C1_CountsEqualTotal ==
  mainPc = "done" => aggSuccess + aggFailure = totalScreenshots

\* C2: a task whose raw screenshot is absent is in attempt 1 of its first call,
\* has reloaded nothing and performed no UI step, returns false, and is
\* recorded Failed.
C2_MissingSourceNeverRetried ==
  \A s \in Sizes :
    LET p == proc[s] IN
      /\ \A k \in 1..Len(p.outcome) : ~FilePresent(s, k) => p.outcome[k] = "Failed"
      /\ (InTask(p) /\ ~FilePresent(s, p.taskIdx)) =>
            /\ p.pc \in {"access", "account"}
            /\ p.log = << <<1, 1>> >>
            /\ p.attempt = 1
            /\ p.reloads = 0
            /\ p.stepLog = <<>>
            /\ p.thrown = 0
            /\ (p.pc = "account" => ~p.success)

C2_Witness ==
  \E s \in Sizes :
    /\ proc[s].pc = "account"
    /\ ~FilePresent(s, proc[s].taskIdx)
    /\ ~proc[s].success

\* the steps the claim C3 lists before the export, in its order
ReconfigureSteps ==
  <<"reload", "selectOutputSize", "uploadScreenshot", "configureBackground",
    "configureDevice", "configureText">>

IsPrefix(a, b) == Len(a) <= Len(b) /\ \A i \in 1..Len(a) : a[i] = b[i]

\* an attempt of the current task has just failed
AttemptFailed(s) ==
  \/ proc[s].pc = "retryReload"
  \/ proc[s].pc = "account" /\ ~proc[s].success /\ FilePresent(s, proc[s].taskIdx)

TaskFailed(s) ==
  proc[s].pc = "account" /\ ~proc[s].success /\ FilePresent(s, proc[s].taskIdx)

ThreeAttempts == << <<1, 1>>, <<1, 2>>, <<1, 3>> >>

OnPage(p, c, k) == Cardinality({j \in 1..k : p.taskPage[j] = c})

\* C4: once exactly CONTEXT_REFRESH_INTERVAL tasks have been processed on one
\* page, the next task of the size runs on a page created later (a new
\* session identity), and close() had been called on the old context before
\* any new context was created.
C4_RefreshGivesNewSession ==
  \A s \in Sizes :
    LET p == proc[s]
        I == CONTEXT_REFRESH_INTERVAL(config.sizes[s])
        n == Len(p.taskPage)
    IN  /\ ~p.createdBeforeClose
        /\ \A k \in 1..n :
             OnPage(p, p.taskPage[k], k) = I =>
               /\ k < n => (p.taskPage[k + 1] > p.taskPage[k]
                            /\ p.taskPage[k] \in p.closeCalled)
               /\ (k = n /\ p.pc \in StepNames \cup {"access", "retryReload"}) =>
                     (p.page > p.taskPage[k] /\ p.taskPage[k] \in p.closeCalled)

C4_Witness ==
  \E s \in Sizes :
    LET p == proc[s]
        I == CONTEXT_REFRESH_INTERVAL(config.sizes[s])
    IN  /\ Len(p.taskPage) > I
        /\ \A k \in 1..I : p.taskPage[k] = p.taskPage[1]
        /\ p.taskPage[I + 1] > p.taskPage[1]
        /\ p.outcome[I + 1] = "Success"

\* C5: processedInContext is always between 0 and the size's refresh interval.
C5_CounterWithinInterval ==
  \A s \in Sizes :
    /\ proc[s].processedInContext >= 0
    /\ proc[s].processedInContext <= CONTEXT_REFRESH_INTERVAL(config.sizes[s])

C5_Witness ==
  \E s \in Sizes :
    /\ proc[s].recoveries >= 1
    /\ proc[s].processedInContext = CONTEXT_REFRESH_INTERVAL(config.sizes[s])

\* the configuration of the end-to-end scenario
EndToEndConfig ==
  [screenshots |-> <<Shot("home", <<"en", "de">>), Shot("settings", <<"en", "de">>)>>,
   sizes |-> <<SizeOf(IPhone69)>>]

MissingFiles == AllRawPaths(config) \ files

\* C9: with 2 artifacts, 2 locales, 1 preset size and no failing step, the run
\* ends with 4 Success, 0 Failed and status 0 when all sources are present, and
\* with 3 Success, 1 Failed and status 1 when exactly one is missing, the
\* Failed task being the one whose source is missing.
C9_EndToEnd ==
  (config = EndToEndConfig /\ faults = 0 /\ RunEnded) =>
     /\ mainPc = "done"
     /\ MissingFiles = {} =>
          (aggSuccess = 4 /\ aggFailure = 0 /\ exitCode = 0)
     /\ Cardinality(MissingFiles) = 1 =>
          /\ aggSuccess = 3 /\ aggFailure = 1 /\ exitCode # 0
          /\ \A k \in 1..4 :
               proc[1].outcome[k] = IF FilePresent(1, k) THEN "Success" ELSE "Failed"

C9_Witness ==
  /\ config = EndToEndConfig
  /\ faults = 0
  /\ RunEnded
  /\ Cardinality(MissingFiles) = 1
  /\ aggSuccess = 3
  /\ exitCode = 1

AllTasksSucceeded ==
  \A s \in Sizes :
    /\ Len(proc[s].outcome) = Len(Tasks)
    /\ \A k \in 1..Len(Tasks) : proc[s].outcome[k] = "Success"

SomeTaskFailed ==
  \E s \in Sizes : \E k \in 1..Len(proc[s].outcome) : proc[s].outcome[k] = "Failed"

\* C10: the exit status is 0 exactly when every declared task ended in
\* Success, it is 1 when some task ended Failed, and the process exits only
\* after every size of every wave has returned its counts.
C10_ExitStatus ==
  RunEnded =>
    /\ exitCode = 0 <=> AllTasksSucceeded
    /\ SomeTaskFailed => exitCode = 1
    /\ \A s \in Sizes : proc[s].pc = "returned"

\* C11: no error escapes processSize: whatever fails while a size is
\* processed, its processSize invocation never ends by throwing, and the run
\* is never aborted through the catch of main.
C11_NoErrorEscapesProcessSize ==
  /\ \A s \in Sizes : proc[s].pc # "threw"
  /\ mainPc # "exited"

\* the number of places a size has in the two waves of main
WavePlaces(s) ==
  Cardinality({i \in 1..Len(iphoneSizes) : iphoneSizes[i] = s})
    + Cardinality({i \in 1..Len(ipadSizes) : ipadSizes[i] = s})

\* C12: every configured size has exactly one place in the two waves, no size
\* accounts for more tasks than are declared, and when the run has ended every
\* size has brought every declared (artifact, locale) pair to Success or Failed.
C12_EveryTripleProcessedOnce ==
  /\ \A s \in Sizes : WavePlaces(s) = 1
  /\ \A s \in Sizes : Len(proc[s].outcome) <= Len(Tasks)
  /\ RunEnded => \A s \in Sizes : Len(proc[s].outcome) = Len(Tasks)

\* the tasks of size s that have been started and are not yet Success or Failed
InProgress(s) ==
  {k \in 1..Len(Tasks) : k <= proc[s].taskIdx /\ k > Len(proc[s].outcome)}

Active(s) == proc[s].pc \notin {"idle", "returned", "threw"}

\* C14: while a size whose label does not contain 'iphone' is active, every
\* size whose label contains it has returned, every sequential size before
\* it in the configuration has returned and every one after it has not started.
C14_SequentialWaveOneAtATime ==
  \A s \in Sizes :
    (Active(s) /\ ~IsIphone(config.sizes[s])) =>
      \A t \in Sizes \ {s} :
        /\ IsIphone(config.sizes[t]) => proc[t].pc = "returned"
        /\ (~IsIphone(config.sizes[t]) /\ t < s) => proc[t].pc = "returned"
        /\ (~IsIphone(config.sizes[t]) /\ t > s) => proc[t].pc = "idle"

\* the second sequential size is at work after two parallel sizes and the
\* first sequential size have returned
C14_Witness ==
  \E s \in Sizes :
    /\ ~IsIphone(config.sizes[s])
    /\ proc[s].pc \in StepNames
    /\ \E t \in Sizes : t < s /\ ~IsIphone(config.sizes[t]) /\ proc[t].pc = "returned"
    /\ Len(iphoneSizes) = 2

\* the number of finished tasks of size s with outcome o
CountOutcome(s, o) ==
  Cardinality({k \in 1..Len(proc[s].outcome) : proc[s].outcome[k] = o})

\* C15: the counters and handles of a size are those of its own scheduler:
\* its successCount and failureCount count its own finished tasks, its
\* browser, context and page are ones it created itself; and the aggregate of
\* main is a function of the per-task outcomes alone, whatever the
\* interleaving of the parallel wave was.
C15_NoSharedStateBetweenSizes ==
  /\ \A s \in Sizes :
        /\ proc[s].successCount = CountOutcome(s, "Success")
        /\ proc[s].failureCount = CountOutcome(s, "Failed")
        /\ proc[s].browser \in 0..proc[s].nBrowsers
        /\ proc[s].context \in 0..proc[s].nContexts
        /\ proc[s].page = proc[s].context
  /\ mainPc = "done" =>
        /\ aggSuccess = SumSeq([s \in 1..Len(config.sizes) |-> CountOutcome(s, "Success")])
        /\ aggFailure = SumSeq([s \in 1..Len(config.sizes) |-> CountOutcome(s, "Failed")])

\* a run with two parallel sizes has ended with both kinds of outcome
C15_Witness ==
  /\ mainPc = "done"
  /\ Len(iphoneSizes) = 2
  /\ aggSuccess >= 1
  /\ aggFailure >= 1
  /\ \E s \in Sizes : IsIphone(config.sizes[s]) /\ proc[s].failureCount = 1

\* the last call of createFreshPage has ended (with a page or an error)
CreateCallEnded(p) ==
  /\ p.tries >= 1
  /\ p.pc \notin {"create", "relaunchClose", "relaunch", "recreate"}

\* C16 as stated: a call of createFreshPage never makes more than two creation
\* attempts or more than one relaunch, and whenever its first attempt failed
\* it has relaunched once and made exactly one more creation attempt.
C16_RetriesExactlyOnce ==
  \A s \in Sizes :
    LET p == proc[s] IN
      /\ p.tries <= 2
      /\ p.relaunches <= 1
      /\ (CreateCallEnded(p) /\ p.relaunches >= 1) => p.tries = 2

\* C16 amended: a call of createFreshPage makes at most two creation attempts
\* and at most one relaunch; the second attempt is made only after the one
\* relaunch succeeded; a page returned after a failed first attempt comes from
\* that second attempt; and the call throws only after its relaunch, either
\* because the relaunch failed (no second attempt) or because the second
\* attempt failed.
C16_RelaunchOnceRetryAtMostOnce ==
  \A s \in Sizes :
    LET p == proc[s] IN
      /\ p.tries <= 2
      /\ p.relaunches <= 1
      /\ p.pc = "recreate" => (p.tries = 1 /\ p.relaunches = 1)
      /\ (CreateCallEnded(p) /\ ~p.throwing /\ p.relaunches = 1) => p.tries = 2
      /\ (CreateCallEnded(p) /\ ~p.throwing /\ p.relaunches = 0) => p.tries = 1
      /\ p.throwing => (p.relaunches = 1 /\ p.tries \in {1, 2})

\* a task runs on the page the single retry produced
C16_Witness ==
  \E s \in Sizes :
    /\ proc[s].pc \in StepNames
    /\ proc[s].tries = 2
    /\ proc[s].relaunches = 1
    /\ proc[s].nBrowsers = 2

\* C17: the page a size holds was handed over by createFreshPage after goto
\* and selectOutputSize resolved on it, and every attempt of a task runs on
\* such a page.
C17_TasksRunOnSizedPages ==
  \A s \in Sizes :
    LET p == proc[s] IN
      /\ p.page # 0 => (p.page \in p.navigated /\ p.page \in p.sized)
      /\ p.pc \in StepNames \cup {"access", "retryReload", "account"} =>
            (p.page # 0 /\ p.page \in p.sized)

\* a task runs on the page created by the recovery after its first page died
C17_Witness ==
  \E s \in Sizes :
    /\ proc[s].pc \in StepNames
    /\ proc[s].call = 2
    /\ proc[s].recoveries = 1
    /\ proc[s].page \in proc[s].sized
    /\ proc[s].page > 1

\* the positions at which processSize awaits a close()
ClosePcs == {"relaunchClose", "refreshClose", "recoverClose", "closeCtx", "closeBrowser"}

\* where processSize goes on after the close() awaited at p.pc
AfterClose(p) ==
  CASE p.pc = "relaunchClose" -> "relaunch"
    [] p.pc = "refreshClose" -> "create"
    [] p.pc = "recoverClose" -> "create"
    [] p.pc = "closeCtx" -> "closeBrowser"
    [] p.pc = "closeBrowser" -> IF p.throwing THEN "threw" ELSE "returned"

\* C18: a step that awaits context.close() or browser.close() goes on to the
\* same place whether the close succeeded or failed, raises no error, and
\* leaves the counts and the outcomes of the tasks as they were.
C18_CloseFailureNeverEscalated ==
  [][\A s \in Sizes :
       (proc[s].pc \in ClosePcs /\ proc'[s] # proc[s]) =>
          /\ proc'[s].pc = AfterClose(proc[s])
          /\ proc'[s].throwing = proc[s].throwing
          /\ proc'[s].successCount = proc[s].successCount
          /\ proc'[s].failureCount = proc[s].failureCount
          /\ proc'[s].outcome = proc[s].outcome]_vars

\* a size has returned the counts of all its tasks although the close of a
\* context and the close of its browser failed
C18_Witness ==
  \E s \in Sizes :
    /\ proc[s].pc = "returned"
    /\ proc[s].liveBrowsers # {}
    /\ proc[s].closeCalled \cap proc[s].liveContexts # {}
    /\ proc[s].successCount = Len(Tasks)

\* C19: when processSize has returned or thrown after a browser was launched,
\* close() has been called on every browser it launched, the last one
\* included; and on normal completion close() was called on the current
\* context before the browser is closed.
C19_BrowserCloseAlwaysAttempted ==
  \A s \in Sizes :
    LET p == proc[s] IN
      /\ (p.pc \in {"returned", "threw"} /\ p.nBrowsers > 0) =>
            (p.browser # 0 /\ p.browserCloseCalled = 1..p.nBrowsers)
      /\ (p.pc = "closeBrowser" /\ ~p.throwing) => p.context \in p.closeCalled
      /\ p.pc = "returned" => (~p.throwing /\ p.context \in p.closeCalled)

\* an error escaped the task loop after a relaunch, and both browsers were closed
C19_Witness ==
  \E s \in Sizes :
    /\ proc[s].pc = "threw"
    /\ proc[s].nBrowsers = 2
    /\ proc[s].browserCloseCalled = {1, 2}
    /\ proc[s].taskIdx >= 1

(***************************************************************************)
(* An awaited step that never settles (specification SpecHang).  Each step *)
(* of processScreenshot is awaited directly (generate.mjs:427-440); nothing *)
(* races the chain against a timer: PER_SCREENSHOT_TIMEOUT_MS (line 58) is  *)
(* declared and never read.  A step that neither resolves nor rejects      *)
(* therefore leaves processScreenshot suspended at its await.              *)
(***************************************************************************)
StepHangs(s) ==
  /\ Running
  /\ proc[s].pc \in StepNames
  /\ faults < MaxFaults
  /\ faults' = faults + 1
  /\ Keep(s, [proc[s] EXCEPT !.pc = "hung"])
  /\ SizeFrame

\* the end-to-end configuration with every raw screenshot on disk
InitHang ==
  /\ config = EndToEndConfig
  /\ files = AllRawPaths(config)
  /\ StartOfRun
  /\ pathSt = NoPath
  /\ ui = NoUI
  /\ det = NoDet
  /\ att = NoAtt
  /\ canvas = NoCanvas
  /\ sh = NoSh

NextHang ==
  \/ MainStart
  \/ MainAfterWave1
  \/ \E s \in Sizes : LaunchBrowser(s)
  \/ \E s \in Sizes : CreateFreshPage(s)
  \/ \E s \in Sizes : RelaunchClose(s)
  \/ \E s \in Sizes : Relaunch(s)
  \/ \E s \in Sizes : Recreate(s)
  \/ \E s \in Sizes : Loop(s)
  \/ \E s \in Sizes : CheckAccess(s)
  \/ \E s \in Sizes : UIStep(s)
  \/ \E s \in Sizes : StepHangs(s)
  \/ \E s \in Sizes : RetryReload(s)
  \/ \E s \in Sizes : RecoverClose(s)
  \/ \E s \in Sizes : Account(s)
  \/ \E s \in Sizes : CloseContext(s)
  \/ \E s \in Sizes : CloseBrowser(s)

\* the event loop runs every continuation that is ready
SpecHang == InitHang /\ [][NextHang]_vars /\ WF_vars(NextHang)

\* an attempt of some size is suspended at a step that never settles
AttemptBlocked == \E s \in Sizes : proc[s].pc = "hung"

\* C20: an attempt blocked in a step that never returns is eventually
\* aborted, so that its task moves on to the next attempt or to Failed.
C20_BlockedAttemptIsAborted == AttemptBlocked ~> ~AttemptBlocked

(***************************************************************************)
(* The output path of a task (generate.mjs:106-108, 406-411).              *)
(***************************************************************************)
IsQuote(c) == c = "\""
\* the class \s of the regular expression; the labels use the space and the tab
IsSpace(c) == c \in {" ", "\t"}

\* .replace(/"/g, '_')
ReplaceQuotes(str) == [i \in 1..Len(str) |-> IF IsQuote(str[i]) THEN "_" ELSE str[i]]

RECURSIVE DropSpaces(_)
DropSpaces(str) ==
  IF str # <<>> /\ IsSpace(str[1]) THEN DropSpaces(Tail(str)) ELSE str

\* .replace(/\s+/g, '_'): every maximal run of whitespace becomes one underscore
RECURSIVE ReplaceSpaceRuns(_)
ReplaceSpaceRuns(str) ==
  IF str = <<>> THEN <<>>
  ELSE IF IsSpace(str[1]) THEN <<"_">> \o ReplaceSpaceRuns(DropSpaces(str))
  ELSE <<str[1]>> \o ReplaceSpaceRuns(Tail(str))

\* sanitizeSize with /\s/g for /\s+/g: one underscore per whitespace character
sanitizeSizePerChar(sizeName) ==
  [i \in 1..Len(sizeName) |->
     IF IsQuote(sizeName[i]) \/ IsSpace(sizeName[i]) THEN "_" ELSE sizeName[i]]

\* generate.mjs:106-108
sanitizeSize(sizeName) == ReplaceSpaceRuns(ReplaceQuotes(sizeName))

\* path.join of two segments that hold no separator and no dot segment
join(a, b) == a \o <<"/">> \o b

PngSuffix == <<".", "p", "n", "g">>

\* outputPath of processScreenshot (lines 410-411)
OutputPath(outputDir, locale, device, screenshotId) ==
  join(join(join(outputDir, locale), sanitizeSize(device)), screenshotId \o PngSuffix)

OutputRoot == <<"o", "u", "t">>
LocaleEn == <<"e", "n">>
LocaleDe == <<"d", "e">>
HomeScreen == <<"h", "o", "m", "e", "-", "s", "c", "r", "e", "e", "n">>
PathLocales == {LocaleEn, LocaleDe}
PathIds == {HomeScreen, <<"a">>}
LabelChars == {"a", "\"", " ", "\t", "_"}

\* every label of at most MaxLen characters, and the label of the spec's example
PathLabels ==
  UNION {[1..n -> LabelChars] : n \in 0..MaxLen} \cup {IPhone69}

PathTasks == [locale : PathLocales, device : PathLabels, id : PathIds]

InitPath ==
  pathSt \in [locale : PathLocales, device : PathLabels, id : PathIds,
              attempt : {0}, outputPath : {<<>>}]

\* lines 405-411: processScreenshot is entered for the next attempt of the task
\* and computes its paths again from the same arguments
EnterAttempt ==
  /\ pathSt.attempt >= 0
  /\ pathSt.attempt < MAX_RETRIES
  /\ pathSt' = [pathSt EXCEPT
                  !.attempt = @ + 1,
                  !.outputPath = OutputPath(OutputRoot, pathSt.locale, pathSt.device,
                                            pathSt.id)]
  /\ UNCHANGED <<runVars, ui, det, att, canvas, sh>>

NoRun ==
  /\ config = NoConfig
  /\ files = {}
  /\ faults = 0
  /\ mainPc = "unused"
  /\ exitCode = -1
  /\ totalScreenshots = 0
  /\ sizeResults = <<>>
  /\ seqIdx = 0
  /\ aggSuccess = 0
  /\ aggFailure = 0
  /\ proc = <<>>

InitPathOnly ==
  /\ InitPath
  /\ NoRun
  /\ ui = NoUI
  /\ det = NoDet
  /\ att = NoAtt
  /\ canvas = NoCanvas
  /\ sh = NoSh

NextPath == EnterAttempt

SpecPath == InitPathOnly /\ [][NextPath]_vars

\* the sanitization the claims describe, in one pass: a quote gives an
\* underscore, a whitespace character gives one unless it continues a run
RECURSIVE Underscored(_, _)
Underscored(str, inRun) ==
  IF str = <<>> THEN <<>>
  ELSE IF IsQuote(str[1]) THEN <<"_">> \o Underscored(Tail(str), FALSE)
  ELSE IF IsSpace(str[1])
         THEN (IF inRun THEN <<>> ELSE <<"_">>) \o Underscored(Tail(str), TRUE)
  ELSE <<str[1]>> \o Underscored(Tail(str), FALSE)

ExamplePath ==
  OutputRoot \o <<"/", "d", "e", "/", "i", "P", "h", "o", "n", "e", "_", "6", ".",
                  "9", "_", "/", "h", "o", "m", "e", "-", "s", "c", "r", "e", "e",
                  "n", ".", "p", "n", "g">>

\* C7: on every attempt the output path is outputRoot/locale/sanitized
\* label/id.png, the label with every quote and every whitespace run replaced
\* by an underscore; for (de, iPhone 6.9", home-screen) it is
\* outputRoot/de/iPhone_6.9_/home-screen.png.
C7_OutputPathDetermined ==
  pathSt.attempt >= 1 =>
     /\ pathSt.outputPath =
          OutputRoot \o <<"/">> \o pathSt.locale \o <<"/">>
            \o Underscored(pathSt.device, FALSE) \o <<"/">> \o pathSt.id \o PngSuffix
     /\ (pathSt.locale = LocaleDe /\ pathSt.device = IPhone69 /\ pathSt.id = HomeScreen)
           => pathSt.outputPath = ExamplePath

C7_Witness ==
  /\ pathSt.attempt = MAX_RETRIES
  /\ pathSt.locale = LocaleDe
  /\ pathSt.device = IPhone69
  /\ pathSt.id = HomeScreen
  /\ pathSt.outputPath = ExamplePath

\* C8: the output path of a task differs from the output path of every other
\* task, one that differs from it in locale, size label or artifact id.
C8_PathsNeverCollide ==
  pathSt.attempt >= 1 =>
     \A other \in PathTasks :
       (other.locale # pathSt.locale \/ other.device # pathSt.device
          \/ other.id # pathSt.id)
         => OutputPath(OutputRoot, other.locale, other.device, other.id)
              # pathSt.outputPath

(***************************************************************************)
(* The toggles of the remote page (generate.mjs:295-305, 327-333,          *)
(* 371-377).  A toggle is a div whose class "active" a click flips.        *)
(***************************************************************************)
ToggleNames == {"frame", "headline", "subheadline"}

InitUI ==
  \E border \in BOOLEAN, start \in [ToggleNames -> BOOLEAN] :
    ui = [pc |-> "frameClick",
          border |-> border,          \* size.border is configured
          active |-> start,           \* the class "active" of each toggle
          prior |-> start,            \* the state the pass found the toggles in
          clicks |-> [n \in ToggleNames |-> 0],
          unread |-> {},              \* toggles not read since their last click
          borderActive |-> FALSE,     \* the local of line 301
          isEnabled |-> FALSE,        \* the local of line 329
          subEnabled |-> FALSE]       \* the local of line 373

\* locator.click() on a toggle resolved: the page flipped it
Clicked(u, name) ==
  [u EXCEPT !.active[name] = ~@, !.clicks[name] = @ + 1, !.unread = @ \cup {name}]

\* an awaited page operation rejected: the attempt ends in processScreenshot's catch
Rejected(u) == [u EXCEPT !.pc = "failed"]

UIFrame == UNCHANGED <<runVars, pathSt, det, att, canvas, sh>>

\* FrameClick as a bare click, without the read-back and the second click of
\* lines 300-305
FrameClickUnverified ==
  /\ ui.pc = "frameClick"
  /\ IF ~ui.border
       THEN ui' = [ui EXCEPT !.pc = "headlineRead"]
       ELSE \E ok \in BOOLEAN :
              ui' = IF ok THEN [Clicked(ui, "frame") EXCEPT !.pc = "frameDone"]
                    ELSE Rejected(ui)
  /\ UIFrame

\* lines 295-299: with a border configured, click the frame toggle
FrameClick ==
  /\ ui.pc = "frameClick"
  /\ IF ~ui.border
       THEN ui' = [ui EXCEPT !.pc = "headlineRead"]
       ELSE \E ok \in BOOLEAN :
              ui' = IF ok THEN [Clicked(ui, "frame") EXCEPT !.pc = "frameRead"]
                    ELSE Rejected(ui)
  /\ UIFrame

\* FrameRead without the evaluate of line 301: the second click is decided
\* on a value that was never read
FrameReadSkipped ==
  /\ ui.pc = "frameRead"
  /\ \E ok \in BOOLEAN :
       ui' = IF ok THEN [ui EXCEPT !.pc = "frameReclick"] ELSE Rejected(ui)
  /\ UIFrame

\* line 301: read the state back
FrameRead ==
  /\ ui.pc = "frameRead"
  /\ \E ok \in BOOLEAN :
       ui' = IF ok THEN [ui EXCEPT !.borderActive = ui.active["frame"],
                                   !.unread = @ \ {"frame"},
                                   !.pc = "frameReclick"]
             ELSE Rejected(ui)
  /\ UIFrame

\* lines 302-305: click again when the first click switched the toggle off
FrameReclick ==
  /\ ui.pc = "frameReclick"
  /\ IF ui.borderActive
       THEN ui' = [ui EXCEPT !.pc = "frameDone"]
       ELSE \E ok \in BOOLEAN :
              ui' = IF ok THEN [Clicked(ui, "frame") EXCEPT !.pc = "frameDone"]
                    ELSE Rejected(ui)
  /\ UIFrame

\* lines 306-315: the border properties; configureDevice returns
FrameProperties ==
  /\ ui.pc = "frameDone"
  /\ \E ok \in BOOLEAN :
       ui' = IF ok THEN [ui EXCEPT !.pc = "headlineRead"] ELSE Rejected(ui)
  /\ UIFrame

\* line 329
HeadlineRead ==
  /\ ui.pc = "headlineRead"
  /\ \E ok \in BOOLEAN :
       ui' = IF ok THEN [ui EXCEPT !.isEnabled = ui.active["headline"],
                                   !.unread = @ \ {"headline"},
                                   !.pc = "headlineClick"]
             ELSE Rejected(ui)
  /\ UIFrame

\* lines 330-333
HeadlineClick ==
  /\ ui.pc = "headlineClick"
  /\ IF ui.isEnabled
       THEN ui' = [ui EXCEPT !.pc = "headlineDone"]
       ELSE \E ok \in BOOLEAN :
              ui' = IF ok THEN [Clicked(ui, "headline") EXCEPT !.pc = "headlineDone"]
                    ELSE Rejected(ui)
  /\ UIFrame

\* lines 335-369: the text, font, weight, colour and offset fields
TextFields ==
  /\ ui.pc = "headlineDone"
  /\ \E ok \in BOOLEAN :
       ui' = IF ok THEN [ui EXCEPT !.pc = "subheadlineRead"] ELSE Rejected(ui)
  /\ UIFrame

\* line 373
SubheadlineRead ==
  /\ ui.pc = "subheadlineRead"
  /\ \E ok \in BOOLEAN :
       ui' = IF ok THEN [ui EXCEPT !.subEnabled = ui.active["subheadline"],
                                   !.unread = @ \ {"subheadline"},
                                   !.pc = "subheadlineClick"]
             ELSE Rejected(ui)
  /\ UIFrame

\* lines 374-377
SubheadlineClick ==
  /\ ui.pc = "subheadlineClick"
  /\ IF ~ui.subEnabled
       THEN ui' = [ui EXCEPT !.pc = "subheadlineDone"]
       ELSE \E ok \in BOOLEAN :
              ui' = IF ok THEN [Clicked(ui, "subheadline") EXCEPT !.pc = "subheadlineDone"]
                    ELSE Rejected(ui)
  /\ UIFrame

InitUIOnly ==
  /\ InitUI
  /\ NoRun
  /\ pathSt = NoPath
  /\ det = NoDet
  /\ att = NoAtt
  /\ canvas = NoCanvas
  /\ sh = NoSh

NextUI ==
  \/ FrameClick
  \/ FrameRead
  \/ FrameReclick
  \/ FrameProperties
  \/ HeadlineRead
  \/ HeadlineClick
  \/ TextFields
  \/ SubheadlineRead
  \/ SubheadlineClick

SpecUI == InitUIOnly /\ [][NextUI]_vars

\* the positions at which the operation on a toggle has completed
FrameCompleted ==
  ui.border /\ ui.pc \in {"frameDone", "headlineRead", "headlineClick", "headlineDone",
                          "subheadlineRead", "subheadlineClick", "subheadlineDone"}
HeadlineCompleted ==
  ui.pc \in {"headlineDone", "subheadlineRead", "subheadlineClick", "subheadlineDone"}
SubheadlineCompleted == ui.pc = "subheadlineDone"

\* C6: once the operation on a toggle has completed, the frame toggle is
\* active, the headline toggle is active and the subheadline toggle is not,
\* whatever state each was in before.
C6_ToggleEndsAsRequested ==
  /\ FrameCompleted => ui.active["frame"]
  /\ HeadlineCompleted => ui.active["headline"]
  /\ SubheadlineCompleted => ~ui.active["subheadline"]

C6_Witness ==
  /\ ui.pc = "subheadlineDone"
  /\ ui.border
  /\ ui.prior["frame"] /\ ui.clicks["frame"] = 2
  /\ ~ui.prior["headline"] /\ ui.clicks["headline"] = 1
  /\ ui.prior["subheadline"] /\ ui.clicks["subheadline"] = 1

(***************************************************************************)
(* The resolution of the remote UI address (generate.mjs:46-52, 67-90;     *)
(* specification SpecUrl).  args is process.argv.slice(2); the probe is    *)
(* the HEAD request of line 75 with its abort after 3000 ms.               *)
(***************************************************************************)
MaxArgs == 3       \* length of the generated command lines

FlagYuzuUrl == "--yuzu-url"
FlagConfig == "--config"
OverrideUrl == "http://localhost:9090"
LocalUrl == "http://localhost:8080"
FallbackUrl == "https://yuzu-hub.github.io/appscreen/"
Null == "null"
Undefined == "undefined"

\* the words a command line is made of; one of them is the empty string
ArgTokens == {FlagYuzuUrl, FlagConfig, OverrideUrl, "c.json", ""}
ArgLists == UNION {[1..n -> ArgTokens] : n \in 0..MaxArgs}

\* Array.prototype.indexOf, counted from 1 (0 when absent)
indexOf(args, x) ==
  IF \E i \in 1..Len(args) : args[i] = x
    THEN CHOOSE i \in 1..Len(args) : args[i] = x /\ \A j \in 1..(i - 1) : args[j] # x
    ELSE 0

\* lines 50-52: the word after the first --yuzu-url, undefined past the end
yuzuBaseUrl(args) ==
  IF indexOf(args, FlagYuzuUrl) # 0
    THEN IF indexOf(args, FlagYuzuUrl) + 1 <= Len(args)
           THEN args[indexOf(args, FlagYuzuUrl) + 1]
           ELSE Undefined
    ELSE Null

\* the truthiness test of line 68
Truthy(v) == v \notin {Null, Undefined, ""}

\* how the HEAD request ends: a 2xx answer, another answer, or a rejection
\* (connection refused, or the abort of AbortSignal.timeout)
ProbeOutcomes == {"ok", "notOk", "rejects"}

InitDet ==
  \E args \in ArgLists :
    det = [pc |-> "start", args |-> args, probed |-> FALSE, probe |-> "none",
           result |-> Null]

DetFrame == UNCHANGED <<runVars, pathSt, ui, att, canvas, sh>>

\* lines 68-71
DetectOverride ==
  /\ det.pc = "start"
  /\ Truthy(yuzuBaseUrl(det.args))
  /\ det' = [det EXCEPT !.pc = "returned", !.result = yuzuBaseUrl(det.args)]
  /\ DetFrame

\* lines 74-78: the request is sent
DetectProbe ==
  /\ det.pc = "start"
  /\ ~Truthy(yuzuBaseUrl(det.args))
  /\ det' = [det EXCEPT !.pc = "probing", !.probed = TRUE]
  /\ DetFrame

\* ProbeAnswers without the test of response.ok (line 79)
ProbeAnswersUnchecked ==
  /\ det.pc = "probing"
  /\ \E r \in ProbeOutcomes :
       det' = [det EXCEPT !.pc = "returned", !.probe = r,
                          !.result = IF r \in {"ok", "notOk"} THEN LocalUrl ELSE FallbackUrl]
  /\ DetFrame

\* lines 79-89: the answer, the swallowed rejection, the fallback
ProbeAnswers ==
  /\ det.pc = "probing"
  /\ \E r \in ProbeOutcomes :
       det' = [det EXCEPT !.pc = "returned", !.probe = r,
                          !.result = IF r = "ok" THEN LocalUrl ELSE FallbackUrl]
  /\ DetFrame

InitUrlOnly ==
  /\ InitDet
  /\ NoRun
  /\ pathSt = NoPath
  /\ ui = NoUI
  /\ att = NoAtt
  /\ canvas = NoCanvas
  /\ sh = NoSh

NextUrl ==
  \/ DetectOverride
  \/ DetectProbe
  \/ ProbeAnswers

SpecUrl == InitUrlOnly /\ [][NextUrl]_vars

\* an override is supplied: a non-empty word follows the first --yuzu-url
OverrideSupplied ==
  \E i \in 1..(Len(det.args) - 1) :
    /\ det.args[i] = FlagYuzuUrl
    /\ \A j \in 1..(i - 1) : det.args[j] # FlagYuzuUrl
    /\ det.args[i + 1] # ""

\* the word that follows the first --yuzu-url
SuppliedUrl ==
  det.args[1 + CHOOSE i \in 1..(Len(det.args) - 1) :
                 det.args[i] = FlagYuzuUrl /\ \A j \in 1..(i - 1) : det.args[j] # FlagYuzuUrl]

\* C21: the resolution never ends otherwise than by returning an address; with
\* an override supplied it returns the override and sends no probe; without
\* one it probes and returns the local instance when the probe answered OK
\* and the public fallback otherwise.
C21_AddressResolution ==
  /\ det.pc \in {"start", "probing", "returned"}
  /\ det.pc = "returned" =>
       /\ OverrideSupplied => (det.result = SuppliedUrl /\ ~det.probed)
       /\ ~OverrideSupplied =>
            /\ det.probed
            /\ det.probe = "ok" => det.result = LocalUrl
            /\ det.probe # "ok" => det.result = FallbackUrl
  /\ det.pc # "returned" => det.result = Null

\* the probe was aborted or refused although --yuzu-url is on the command
\* line (without a value), and the fallback was returned
C21_Witness ==
  /\ det.pc = "returned"
  /\ indexOf(det.args, FlagYuzuUrl) = Len(det.args)
  /\ Len(det.args) = MaxArgs
  /\ det.probe = "rejects"
  /\ det.result = FallbackUrl

(***************************************************************************)
(* One processScreenshot call step by step (generate.mjs:151-187, 264-399, *)
(* 405-460; specification SpecAttempt), on a page whose list of uploaded   *)
(* screenshots persists across reloads (lines 146-149).  An item of the    *)
(* list is named by the attempt that uploaded it; 0 names an item left by  *)
(* an earlier task.  A new upload is appended to the list.                 *)
(***************************************************************************)
MaxDeleteAttempts == 40

NoItem == -1

\* the lists the call may find: empty, one item left, or more items than
\* clearYuzuScreenshots can delete
LeftoverLists ==
  {<<>>, <<0>>, [i \in 1..(MaxDeleteAttempts + 1) |-> 0]}

\* the awaited steps of one attempt, in the order of the source: lines 427,
\* 429, 174 (153-168), 177, 182-186, 435, 266-274, 277-284, 287-316,
\* 324-345, 347-352, 355-377, 379, 386, 389-392, 395, 398
AttemptOrder ==
  <<"reload", "selectOutputSize", "clearList", "setInputFiles", "selectItem",
    "configureBackground", "deviceTab", "positionPreset", "deviceRest",
    "textHead", "fontOption", "textRest", "waitForCanvasRender", "ensureDir",
    "clickExport", "awaitDownload", "saveAs">>

\* the steps wrapped in a try/catch of their own (lines 182-186, 277-284, 347-352)
SwallowingSteps == {"selectItem", "positionPreset", "fontOption"}

\* the steps that only succeed or throw and change nothing the model follows
PlainSteps ==
  {"selectOutputSize", "configureBackground", "deviceTab", "deviceRest",
   "textHead", "textRest", "waitForCanvasRender", "ensureDir"}

PositionOf(step) == CHOOSE i \in 1..Len(AttemptOrder) : AttemptOrder[i] = step

\* StepAfter with the waitForCanvasRender of line 379 left out
StepAfterNoRenderWait(step) ==
  IF step = "textRest" THEN "ensureDir" ELSE AttemptOrder[PositionOf(step) + 1]

\* the step after step in the body of the try of lines 415-443
StepAfter(step) == AttemptOrder[PositionOf(step) + 1]

InitAtt ==
  \E items \in LeftoverLists, sel \in {NoItem, 0} :
    /\ (sel = 0 => items # <<>>)
    /\ att = [pc |-> "reload",
              attempt |-> 1,
              success |-> FALSE,
              items |-> items,        \* the list of the remote UI, the placeholder left out
              selected |-> sel,       \* the item the remote UI has selected
              attempts |-> 0,         \* the local of clearYuzuScreenshots
              stopped |-> "none",     \* why the last clearYuzuScreenshots ended
              done |-> <<>>,          \* the steps of this attempt that returned
              errors |-> {},          \* the steps of this attempt in which an error was raised
              raised |-> "none",      \* the step whose error reached the catch of line 445
              pending |-> {},         \* attempts whose download listener is armed and unconsumed
              exported |-> NoItem,    \* the item selected when #export-current was clicked
              unhandled |-> FALSE,    \* a listener rejected with no handler attached
              faults |-> 0,           \* awaited operations that failed so far
              log |-> <<1>>]          \* the attempts entered

AttFrame == UNCHANGED <<runVars, pathSt, ui, det, canvas, sh>>

\* an awaited operation may fail while the budget of faults lasts
MayFail == att.faults < MaxFaults

\* the step at a.pc returned
Returned(a) == [a EXCEPT !.done = Append(@, a.pc), !.pc = StepAfter(a.pc)]

\* Thrown with every step wrapped in a try/catch that logs and goes on
ThrownAndIgnored(a) ==
  [a EXCEPT !.errors = @ \cup {a.pc}, !.faults = @ + 1,
            !.done = Append(@, a.pc),
            !.pc = IF a.pc = "saveAs" THEN "account" ELSE AttemptOrder[PositionOf(a.pc) + 1],
            !.success = (a.pc = "saveAs")]

\* an error raised in the step at a.pc reaches the catch of line 445
Thrown(a) ==
  Caught([a EXCEPT !.errors = @ \cup {a.pc}, !.raised = a.pc, !.faults = @ + 1])

\* an error raised in the step at a.pc is caught inside the step
Swallowed(a) == [a EXCEPT !.errors = @ \cup {a.pc}, !.faults = @ + 1]

\* line 427: the remote UI either forgets its list on the reload or restores
\* it; the page then shows one of the restored items
Reload ==
  /\ att.pc = "reload"
  /\ \/ att' = Returned([att EXCEPT !.items = <<>>, !.selected = NoItem])
     \/ \E sel \in {att.selected} \cup {att.items[i] : i \in 1..Len(att.items)} :
          att' = Returned([att EXCEPT !.selected = IF att.items = <<>> THEN NoItem ELSE sel])
     \/ MayFail /\ att' = Thrown(att)
  /\ AttFrame

PlainStep ==
  /\ att.pc \in PlainSteps
  /\ \/ att' = Returned(att)
     \/ MayFail /\ att' = Thrown(att)
  /\ AttFrame

\* lines 152-155 and 167: the head of the loop of clearYuzuScreenshots
ClearList ==
  /\ att.pc = "clearList"
  /\ \/ att' = IF att.attempts >= MaxDeleteAttempts
                 THEN Returned([att EXCEPT !.stopped = "ceiling"])
               ELSE IF att.items = <<>>
                 THEN Returned([att EXCEPT !.stopped = "empty"])
               ELSE [att EXCEPT !.pc = "clearDelete"]
     \/ MayFail /\ att' = Thrown(att)
  /\ AttFrame

\* ClearDelete without the try/catch of lines 156-166
ClearDeleteUnguarded ==
  /\ att.pc = "clearDelete"
  /\ \/ \E sel \in {NoItem} \cup {att.items[i] : i \in 2..Len(att.items)} :
          att' = [att EXCEPT !.items = Tail(@),
                             !.selected = IF att.selected \in {att.items[i] : i \in 2..Len(att.items)}
                                            THEN att.selected ELSE sel,
                             !.attempts = @ + 1,
                             !.pc = "clearList"]
     \/ MayFail /\ att' = Thrown(att)
  /\ AttFrame

\* lines 156-167: the menu and the delete click on the first item; a failure
\* of either ends the loop
ClearDelete ==
  /\ att.pc = "clearDelete"
  /\ \/ \E sel \in {NoItem} \cup {att.items[i] : i \in 2..Len(att.items)} :
          att' = [att EXCEPT !.items = Tail(@),
                             !.selected = IF att.selected \in {att.items[i] : i \in 2..Len(att.items)}
                                            THEN att.selected ELSE sel,
                             !.attempts = @ + 1,
                             !.pc = "clearList"]
     \/ /\ MayFail
        /\ att' = [Swallowed(att) EXCEPT !.stopped = "clickFailed",
                                         !.done = Append(@, "clearList"),
                                         !.pc = StepAfter("clearList")]
  /\ AttFrame

\* lines 176-178: the file is appended to the list; the remote UI may or may
\* not select it
SetInputFiles ==
  /\ att.pc = "setInputFiles"
  /\ \/ \E sel \in {att.selected, att.attempt} :
          att' = Returned([att EXCEPT !.items = Append(@, att.attempt), !.selected = sel])
     \/ MayFail /\ att' = Thrown(att)
  /\ AttFrame

\* lines 182-186: click the first item of the list, ignoring a failure
SelectItem ==
  /\ att.pc = "selectItem"
  /\ \/ att' = Returned([att EXCEPT !.selected = Head(att.items)])
     \/ MayFail /\ att' = Returned(Swallowed(att))
  /\ AttFrame

\* lines 277-284 and 347-352: the position preset and the font option
OptionalClick ==
  /\ att.pc \in {"positionPreset", "fontOption"}
  /\ \/ att' = Returned(att)
     \/ MayFail /\ att' = Returned(Swallowed(att))
  /\ AttFrame

\* lines 389-392: the listener is armed, then the export control is clicked;
\* when the click throws, downloadPromise is left without a handler
ClickExport ==
  /\ att.pc = "clickExport"
  /\ LET a == [att EXCEPT !.pending = @ \cup {att.attempt}] IN
       \/ att' = Returned([a EXCEPT !.exported = att.selected])
       \/ MayFail /\ att' = Thrown(a)
  /\ AttFrame

\* line 395: the download is observed by every armed listener, or the
\* listener of this attempt times out and the await rethrows its rejection
AwaitDownload ==
  /\ att.pc = "awaitDownload"
  /\ \/ att' = Returned([att EXCEPT !.pending = {}])
     \/ MayFail /\ att' = Thrown([att EXCEPT !.pending = @ \ {att.attempt}])
  /\ AttFrame

\* lines 398 and 442-443
SaveAs ==
  /\ att.pc = "saveAs"
  /\ \/ att' = ReturnFromCall([att EXCEPT !.done = Append(@, "saveAs")], TRUE)
     \/ MayFail /\ att' = Thrown(att)
  /\ AttFrame

\* lines 450-454: the reload that prepares the next attempt, and its entry
RetryPrepare ==
  /\ att.pc = "retryReload"
  /\ \/ att' = [att EXCEPT !.attempt = @ + 1,
                           !.log = Append(@, att.attempt + 1),
                           !.pc = "reload",
                           !.attempts = 0,
                           !.stopped = "none",
                           !.done = <<>>,
                           !.errors = {},
                           !.raised = "none",
                           !.exported = NoItem]
     \/ MayFail /\ att' = [att EXCEPT !.pc = "threw", !.faults = @ + 1]
  /\ AttFrame

\* the timeout of a listener nobody awaits (line 389): its promise rejects
\* with no handler; the runtime reports it and, by default, ends the process
ListenerRejects ==
  /\ att.pc # "terminated"
  /\ \E k \in att.pending :
       /\ ~(k = att.attempt /\ att.pc = "awaitDownload")
       /\ \E pc \in {att.pc, "terminated"} :
            att' = [att EXCEPT !.pending = @ \ {k}, !.unhandled = TRUE, !.pc = pc]
  /\ AttFrame

InitAttemptOnly ==
  /\ InitAtt
  /\ NoRun
  /\ pathSt = NoPath
  /\ ui = NoUI
  /\ det = NoDet
  /\ canvas = NoCanvas
  /\ sh = NoSh

NextAttempt ==
  \/ Reload
  \/ PlainStep
  \/ ClearList
  \/ ClearDelete
  \/ SetInputFiles
  \/ SelectItem
  \/ OptionalClick
  \/ ClickExport
  \/ AwaitDownload
  \/ SaveAs
  \/ RetryPrepare
  \/ ListenerRejects

SpecAttempt == InitAttemptOnly /\ [][NextAttempt]_vars

(***************************************************************************)
(* Properties of one call (specification SpecAttempt).                     *)
(***************************************************************************)
\* the export control has been clicked in the current attempt
ExportClicked == \E i \in 1..Len(att.done) : att.done[i] = "clickExport"

Succeeded == att.pc = "account" /\ att.success

\* C22: the steps that have returned in an attempt are an initial part of the
\* fixed order reload, size selection, project reset, upload, item selection,
\* background, device, text, render wait, export; the step being performed is
\* the next of that order; so the export control is clicked only after all
\* the steps before it returned in the same attempt.
C22_StepsInFixedOrder ==
  /\ IsPrefix(att.done, AttemptOrder)
  /\ att.pc \in {AttemptOrder[i] : i \in 1..Len(AttemptOrder)} =>
       Len(att.done) = PositionOf(att.pc) - 1
  /\ ExportClicked =>
       \A k \in 1..PositionOf("clickExport") : att.done[k] = AttemptOrder[k]

\* the export control has been clicked in the second attempt
C22_Witness ==
  /\ att.pc = "awaitDownload"
  /\ att.attempt = 2
  /\ Len(att.done) = PositionOf("clickExport")
  /\ att.done[PositionOf("waitForCanvasRender")] = "waitForCanvasRender"

CaughtInsideStep == SwallowingSteps \cup {"clearDelete"}

C27_ExportsTheUploadedItem ==
  ExportClicked => att.exported = att.attempt

\* C28: clearYuzuScreenshots makes at most 40 delete attempts; it tries a
\* delete only while the list holds an item and the ceiling is not reached;
\* when it has returned, it stopped because the list was empty, or at the
\* ceiling, or because a click failed; and the failure of a click never
\* reaches the caller.
C28_ProjectResetStops ==
  /\ att.attempts <= MaxDeleteAttempts
  /\ att.pc = "clearDelete" => (att.items # <<>> /\ att.attempts < MaxDeleteAttempts)
  /\ att.pc = "setInputFiles" =>
       /\ att.stopped \in {"empty", "ceiling", "clickFailed"}
       /\ att.stopped = "empty" => att.items = <<>>
       /\ att.stopped = "ceiling" => att.attempts = MaxDeleteAttempts
       /\ att.stopped = "clickFailed" =>
            ("clearDelete" \in att.errors /\ att.items # <<>>
               /\ att.attempts < MaxDeleteAttempts)
  /\ att.raised # "clearDelete"

\* the reset stopped at the ceiling with an item still in the list
C28_Witness ==
  /\ att.pc = "setInputFiles"
  /\ att.stopped = "ceiling"
  /\ att.attempts = MaxDeleteAttempts
  /\ att.items # <<>>

\* C30: no armed download listener is left unconsumed outside the await of
\* the attempt that armed it, and no listener ever rejects unhandled.
C30_ListenersConsumedInAttempt ==
  /\ ~att.unhandled
  /\ att.pc # "terminated"
  /\ att.pending \subseteq {att.attempt}
  /\ att.pending # {} => att.pc = "awaitDownload"

(***************************************************************************)
(* Properties of the recovery of processSize (specification Spec).         *)
(***************************************************************************)
\* the current task of size s is inside its second processScreenshot call
InSecondCall(p) ==
  p.call = 2 /\ p.pc \in StepNames \cup {"access", "retryReload"}

\* C24: a task whose processScreenshot call threw is re-attempted by one more
\* call, on a session created after the old context was told to close and with
\* the refresh counter at 0; when that call throws too the task is Failed; and
\* however processSize ends, the task has been counted, exactly once.
C24_ThrownCallRecoveredAndCounted ==
  \A s \in Sizes :
    LET p == proc[s] IN
      /\ p.thrown <= 2
      /\ InSecondCall(p) =>
           /\ p.thrown = 1
           /\ p.processedInContext = 0
           /\ p.page = p.nContexts
           /\ p.page \notin p.closeCalled
           /\ \E c \in p.closeCalled : c < p.page
      /\ (p.pc = "account" /\ p.thrown = 2) => ~p.success
      /\ Len(p.outcome) <= p.taskIdx
      /\ (p.thrown >= 1 /\ p.pc \in {"returned", "threw"}) =>
           Len(p.outcome) = p.taskIdx

\* C25 as stated: the attempt numbers a task passes through only increase and
\* a task makes at most MAX_RETRIES attempts, the recovery included.
C25_AttemptNumberOnlyIncreases ==
  \A s \in Sizes :
    LET log == proc[s].log IN
      /\ \A i, j \in 1..Len(log) : i < j => log[i][2] < log[j][2]
      /\ Len(log) <= MAX_RETRIES
      /\ proc[s].attempt <= MAX_RETRIES

\* C25 amended: inside one processScreenshot call the attempt number goes
\* 1, 2, 3 in steps of one and never exceeds MAX_RETRIES; the call made by the
\* recovery starts again at attempt 1, after a first call that threw before
\* its last attempt; so a task makes at most 2 * MAX_RETRIES - 1 attempts.
C25_AttemptNumberIncreasesWithinCall ==
  \A s \in Sizes :
    LET log == proc[s].log IN
      /\ \A i \in 1..Len(log) : log[i][1] \in {1, 2} /\ log[i][2] \in 1..MAX_RETRIES
      /\ log # <<>> => log[1] = <<1, 1>>
      /\ \A i \in 1..(Len(log) - 1) :
           \/ log[i + 1] = <<log[i][1], log[i][2] + 1>>
           \/ log[i][1] = 1 /\ log[i][2] < MAX_RETRIES /\ log[i + 1] = <<2, 1>>
      /\ Len(log) <= 2 * MAX_RETRIES - 1
      /\ proc[s].attempt <= MAX_RETRIES

\* a task recovered after its first attempt fails again in the second attempt
\* of the call made by the recovery
C25_Witness ==
  \E s \in Sizes :
    /\ proc[s].log = << <<1, 1>>, <<2, 1>>, <<2, 2>> >>
    /\ proc[s].pc = "retryReload"
    /\ proc[s].thrown = 1

\* C29: when the export of an attempt fails (the download is not observed
\* within DOWNLOAD_TIMEOUT_MS), the task goes to the retry if the attempt was
\* not the last and is Failed otherwise; nothing is thrown to processSize, no
\* other task is touched, and a task that has its outcome is followed by the
\* loop head, which starts the next task if there is one.
C29_DownloadTimeoutConfinedToTask ==
  [][\A s \in Sizes :
       LET p == proc[s]
           q == proc'[s]
       IN  /\ (p.pc = "exportScreenshot" /\ q # p) =>
                /\ \/ q.pc = "account" /\ q.success
                   \/ p.attempt < MAX_RETRIES /\ q.pc = "retryReload" /\ q.attempt = p.attempt
                   \/ p.attempt = MAX_RETRIES /\ q.pc = "account" /\ ~q.success
                /\ ~q.throwing
                /\ q.thrown = p.thrown
                /\ q.taskIdx = p.taskIdx
                /\ q.outcome = p.outcome
                /\ \A t \in Sizes \ {s} : proc'[t] = proc[t]
           /\ (p.pc = "account" /\ q # p) => q.pc = "loop"
           /\ (p.pc = "loop" /\ q # p /\ p.taskIdx < Len(Tasks)) =>
                (q.taskIdx = p.taskIdx + 1 /\ q.pc \in {"access", "refreshClose"})
    ]_vars

\* the export of the third attempt failed, the task is Failed and the size
\* has another task to run
C29_Witness ==
  \E s \in Sizes :
    /\ proc[s].pc = "account"
    /\ ~proc[s].success
    /\ proc[s].attempt = MAX_RETRIES
    /\ proc[s].stepLog = ReconfigureSteps
    /\ proc[s].taskIdx < Len(Tasks)

(***************************************************************************)
(* Properties of the toggle interactions (specification SpecUI).           *)
(***************************************************************************)
\* C26 as stated: once the interaction with a toggle has completed, the state
\* of the toggle has been read since the last click on it.
C26_EveryClickReadBack ==
  /\ FrameCompleted => "frame" \notin ui.unread
  /\ HeadlineCompleted => "headline" \notin ui.unread
  /\ SubheadlineCompleted => "subheadline" \notin ui.unread

\* C26 amended: the frame interaction clicks, reads the state back and clicks
\* a second time only when the state read back is not active, and that second
\* click is not read back; the headline and the subheadline interaction read
\* the state first and click at most once, only when the state read is not
\* the requested one, and that click is not read back.
C26_ReadsAroundClicks ==
  /\ ui.clicks["frame"] <= 2
  /\ ui.pc = "frameReclick" =>
       (ui.clicks["frame"] = 1 /\ "frame" \notin ui.unread
          /\ ui.borderActive = ui.active["frame"])
  /\ FrameCompleted =>
       /\ ui.clicks["frame"] \in {1, 2}
       /\ ui.clicks["frame"] = 2 <=> ~ui.borderActive
       /\ "frame" \in ui.unread <=> ui.clicks["frame"] = 2
  /\ HeadlineCompleted =>
       /\ ui.clicks["headline"] = (IF ui.isEnabled THEN 0 ELSE 1)
       /\ ui.isEnabled = ui.prior["headline"]
       /\ "headline" \in ui.unread <=> ui.clicks["headline"] = 1
  /\ SubheadlineCompleted =>
       /\ ui.clicks["subheadline"] = (IF ui.subEnabled THEN 1 ELSE 0)
       /\ ui.subEnabled = ui.prior["subheadline"]
       /\ "subheadline" \in ui.unread <=> ui.clicks["subheadline"] = 1

\* all three interactions completed with a last click that was not read back
C26_Witness ==
  /\ ui.pc = "subheadlineDone"
  /\ ui.border
  /\ ui.clicks["frame"] = 2
  /\ ui.unread = ToggleNames

(***************************************************************************)
(* The refresh interval and the wave partition (specification Spec).       *)
(***************************************************************************)
InWave(wave, s) == \E i \in 1..Len(wave) : wave[i] = s

\* C31: every size processSize has been called for uses the refresh interval
\* 6 if and only if it is in the sequential wave, and the interval 12 if and
\* only if it is in the parallel wave.
C31_IntervalFollowsWave ==
  \A s \in Sizes :
    proc[s].pc # "idle" =>
      /\ CONTEXT_REFRESH_INTERVAL(config.sizes[s]) = RefreshIpad <=> InWave(ipadSizes, s)
      /\ CONTEXT_REFRESH_INTERVAL(config.sizes[s]) = RefreshOther <=> InWave(iphoneSizes, s)

(***************************************************************************)
(* Live processes and contexts of a size (specification Spec).             *)
(***************************************************************************)
\* C32 as stated: a size never has more than one live browser process nor
\* more than one live context, also after a close call that failed.
C32_AtMostOneLiveSession ==
  \A s \in Sizes :
    /\ Cardinality(proc[s].liveBrowsers) <= 1
    /\ Cardinality(proc[s].liveContexts) <= 1

\* no close call of size s failed and left its process or context alive
ClosesTookEffect(p) ==
  /\ p.closeCalled \cap p.liveContexts = {}
  /\ p.browserCloseCalled \cap p.liveBrowsers = {}

\* C32 amended: a context is created only after close() has been called on
\* the context in use, a process is launched only after close() has been called
\* on every earlier process, and as long as no failed close call has left a
\* process or context alive, the size has at most one live process and at most
\* one live context.
C32_ReplacedOnlyAfterCloseCall ==
  \A s \in Sizes :
    LET p == proc[s] IN
      /\ ~p.createdBeforeClose
      /\ \A b \in 1..p.nBrowsers : b # p.browser => b \in p.browserCloseCalled
      /\ ClosesTookEffect(p) =>
           /\ Cardinality(p.liveBrowsers) <= 1
           /\ Cardinality(p.liveContexts) <= 1

\* a task runs on a fresh context while the context replaced, whose close
\* call failed, is still alive
C32_Witness ==
  \E s \in Sizes :
    /\ proc[s].pc \in StepNames
    /\ Cardinality(proc[s].liveContexts) = 2
    /\ proc[s].context \in proc[s].liveContexts
    /\ ~proc[s].createdBeforeClose

(***************************************************************************)
(* waitForCanvasRender (generate.mjs:122-143; specification SpecRender).   *)
(* The preview canvas is absent or holds the bytes of imageData.data, four *)
(* per pixel (red, green, blue, alpha).                                    *)
(***************************************************************************)
MaxPixels == 2     \* pixels of the generated canvases

CANVAS_WAIT_MS == 2000

ExtraWaitMs == 1000

NoCanvasElement == <<-1>>

Bytes == {0, 255}

\* what getImageData may return for a canvas of 1..MaxPixels pixels
ImageData == UNION {[1..(4 * n) -> Bytes] : n \in 1..MaxPixels}

\* the loop of lines 133-135: i is the 1-based index of data[i - 1]
RECURSIVE AnyAlphaFrom(_, _)
AnyAlphaFrom(data, i) ==
  IF i > Len(data) THEN FALSE
  ELSE IF data[i] > 0 THEN TRUE
  ELSE AnyAlphaFrom(data, i + 4)

\* the function passed to page.evaluate (lines 127-137)
hasContent(cv) ==
  IF cv = NoCanvasElement THEN FALSE ELSE AnyAlphaFrom(cv, 4)

InitCanvas ==
  \E cv \in ImageData \cup {NoCanvasElement} :
    canvas = [pc |-> "delay",
              element |-> cv,          \* the canvas the page shows
              hasContent |-> TRUE,     \* the local of line 127, not yet assigned
              waited |-> <<>>,         \* the delays that elapsed
              evaluated |-> 0,         \* calls of page.evaluate that resolved
              rejected |-> "none"]     \* the page operation that rejected

CanvasFrame == UNCHANGED <<runVars, pathSt, ui, det, att, sh>>

\* an awaited page operation rejected: waitForCanvasRender throws
RenderRejected(c) == [c EXCEPT !.rejected = c.pc, !.pc = "threw"]

\* line 124
RenderDelay ==
  /\ canvas.pc = "delay"
  /\ \/ canvas' = [canvas EXCEPT !.waited = Append(@, CANVAS_WAIT_MS), !.pc = "evaluate"]
     \/ canvas' = RenderRejected(canvas)
  /\ CanvasFrame

\* lines 127-137
RenderEvaluate ==
  /\ canvas.pc = "evaluate"
  /\ \/ canvas' = [canvas EXCEPT !.hasContent = hasContent(canvas.element),
                                 !.evaluated = @ + 1,
                                 !.pc = "blankCheck"]
     \/ canvas' = RenderRejected(canvas)
  /\ CanvasFrame

\* RenderBlankCheck sampling again after the additional delay
RenderBlankCheckLooping ==
  /\ canvas.pc = "blankCheck"
  /\ IF canvas.hasContent
       THEN canvas' = [canvas EXCEPT !.pc = "returned"]
       ELSE \/ /\ Len(canvas.waited) < 3
               /\ canvas' = [canvas EXCEPT !.waited = Append(@, ExtraWaitMs), !.pc = "evaluate"]
            \/ canvas' = RenderRejected(canvas)
  /\ CanvasFrame

\* lines 139-143
RenderBlankCheck ==
  /\ canvas.pc = "blankCheck"
  /\ IF canvas.hasContent
       THEN canvas' = [canvas EXCEPT !.pc = "returned"]
       ELSE \/ canvas' = [canvas EXCEPT !.waited = Append(@, ExtraWaitMs), !.pc = "returned"]
            \/ canvas' = RenderRejected(canvas)
  /\ CanvasFrame

InitRenderOnly ==
  /\ InitCanvas
  /\ NoRun
  /\ pathSt = NoPath
  /\ ui = NoUI
  /\ det = NoDet
  /\ att = NoAtt
  /\ sh = NoSh

NextRender ==
  \/ RenderDelay
  \/ RenderEvaluate
  \/ RenderBlankCheck

SpecRender == InitRenderOnly /\ [][NextRender]_vars

\* the canvas is missing or every pixel of it has alpha 0
EntirelyTransparent(cv) ==
  cv = NoCanvasElement \/ \A k \in 1..(Len(cv) \div 4) : cv[4 * k] = 0

\* C33 as stated: waitForCanvasRender never ends by throwing.
C33_AlwaysReturnsNormally == canvas.pc # "threw"

\* C33 amended: waitForCanvasRender waits the fixed delay and at most one
\* additional delay and samples the canvas at most once; when it has returned
\* it has waited once more exactly when the canvas was missing or entirely
\* transparent; and it throws only when one of its page operations rejected,
\* never because the canvas is blank.
C33_AtMostOneExtraWait ==
  /\ IsPrefix(canvas.waited, <<CANVAS_WAIT_MS, ExtraWaitMs>>)
  /\ canvas.evaluated <= 1
  /\ canvas.pc = "returned" =>
       /\ canvas.evaluated = 1
       /\ canvas.waited = IF EntirelyTransparent(canvas.element)
                            THEN <<CANVAS_WAIT_MS, ExtraWaitMs>>
                            ELSE <<CANVAS_WAIT_MS>>
  /\ canvas.pc = "threw" <=> canvas.rejected # "none"
  /\ canvas.pc = "blankCheck" => (canvas.hasContent <=> ~EntirelyTransparent(canvas.element))

\* the call returned after the extra wait for a canvas whose pixels are
\* coloured but all transparent
C33_Witness ==
  /\ canvas.pc = "returned"
  /\ canvas.element # NoCanvasElement
  /\ \E i \in 1..Len(canvas.element) : canvas.element[i] > 0
  /\ canvas.waited = <<CANVAS_WAIT_MS, ExtraWaitMs>>

(***************************************************************************)
(* The counters of processSize (specification Spec).                       *)
(***************************************************************************)
\* the tasks of size s counted with outcome o
CountedAs(p, o) == Cardinality({k \in 1..Len(p.outcome) : p.outcome[k] = o})

\* C34: the counters of a size always are the numbers of its tasks counted
\* as Success and as Failed, a task being counted when it is accounted for and
\* never again; when processSize has returned normally every declared
\* (artifact, locale) pair has been counted, so the counters add up to their
\* number.
C34_CountersAddUp ==
  \A s \in Sizes :
    LET p == proc[s] IN
      /\ p.successCount = CountedAs(p, "Success")
      /\ p.failureCount = CountedAs(p, "Failed")
      /\ p.successCount + p.failureCount = Len(p.outcome)
      /\ Len(p.outcome) \in {p.taskIdx - 1, p.taskIdx} \cup {0}
      /\ p.pc = "returned" =>
           (p.successCount + p.failureCount = Len(Tasks) /\ ~p.throwing)

\* a size returned after a recovery, a failure and a success
C34_Witness ==
  \E s \in Sizes :
    /\ proc[s].pc = "returned"
    /\ proc[s].recoveries >= 1
    /\ proc[s].failureCount >= 1
    /\ proc[s].successCount >= 1
    /\ Len(Tasks) >= 2

(***************************************************************************)
(* pipeline.sh (specification SpecPipeline).  The script runs under        *)
(* set -euo pipefail (line 26) with cleanup trapped on EXIT (line 86).     *)
(* An arithmetic command ((x++)) has exit status 1 when x was 0; whether   *)
(* that status ends a script under set -e depends on the bash that runs    *)
(* it (it does from bash 4.1 on), so it is an input of the run.            *)
(***************************************************************************)
max_attempts == 30

StageOrder ==
  <<"check_prereqs", "start_yuzu", "extract_screenshots", "generate_screenshots",
    "organize_output", "upload_to_asc", "stop_yuzu", "print_summary">>

StageNames == {StageOrder[i] : i \in 1..Len(StageOrder)}

\* exit status of the arithmetic command ((x++)) when x holds v
ArithStatus(v) == IF v = 0 THEN 1 ELSE 0

InitSh ==
  \E skipExtract \in BOOLEAN, skipCleanup \in BOOLEAN, upload \in BOOLEAN,
     xcresult \in BOOLEAN, errexit \in BOOLEAN :
    sh = [pc |-> "check_prereqs",
          SKIP_EXTRACT |-> skipExtract,
          SKIP_CLEANUP |-> skipCleanup,
          UPLOAD |-> upload,
          XCRESULT_PATH |-> xcresult,     \* --xcresult-path was given
          arithErrexit |-> errexit,       \* set -e acts on (( )) commands
          DOCKER_AVAILABLE |-> FALSE,
          DOCKER_RUNNING |-> FALSE,
          containerStarted |-> FALSE,     \* docker compose up -d succeeded
          containerUp |-> FALSE,          \* the container is running
          attempt |-> 0,                  \* the local of start_yuzu
          probesFailed |-> 0,             \* curl probes that failed
          downCalls |-> 0,                \* docker compose down commands run
          downFailed |-> 0,               \* those that failed
          started |-> <<>>,               \* the stage functions called
          result |-> [n \in StageNames |-> "none"],
          banner |-> FALSE,               \* the success banner was printed
          status |-> -1]                  \* exit status, -1 while running

ShFrame == UNCHANGED <<runVars, pathSt, ui, det, att, canvas>>

\* the stage function is called
Called(s, stage) == [s EXCEPT !.started = Append(@, stage)]

\* the stage function returned: main calls the next one (lines 462-469)
StageDone(s, stage, how) ==
  [s EXCEPT !.result[stage] = how,
            !.pc = IF stage = "print_summary" THEN "banner"
                   ELSE StageOrder[(CHOOSE i \in 1..Len(StageOrder) : StageOrder[i] = stage) + 1]]

\* exit inside a stage, or a command failing under set -e: the EXIT trap runs
StageExit(s, stage, code) ==
  [s EXCEPT !.result[stage] = "failed", !.status = code, !.pc = "cleanup"]

\* docker compose down (lines 73, 374)
ComposeDown(s, ok) ==
  [s EXCEPT !.downCalls = @ + 1,
            !.downFailed = IF ok THEN @ ELSE @ + 1,
            !.containerUp = IF ok THEN FALSE ELSE @]

\* lines 130-181
CheckPrereqs ==
  /\ sh.pc = "check_prereqs"
  /\ \E docker \in BOOLEAN, tools \in BOOLEAN :
       LET s == [Called(sh, "check_prereqs") EXCEPT !.DOCKER_AVAILABLE = docker] IN
         sh' = IF tools THEN StageDone(s, "check_prereqs", "succeeded")
               ELSE StageExit(s, "check_prereqs", 1)
  /\ ShFrame

\* lines 183-201: without Docker the stage is skipped, else the container is started
StartYuzu ==
  /\ sh.pc = "start_yuzu"
  /\ LET s == Called(sh, "start_yuzu") IN
       IF ~sh.DOCKER_AVAILABLE
         THEN sh' = StageDone(s, "start_yuzu", "skipped")
         ELSE \E ok \in BOOLEAN :
                sh' = IF ok THEN [s EXCEPT !.DOCKER_RUNNING = TRUE,
                                           !.containerStarted = TRUE,
                                           !.containerUp = TRUE,
                                           !.attempt = 0,
                                           !.pc = "probe"]
                      ELSE StageExit(s, "start_yuzu", 1)
  /\ ShFrame

\* lines 203-222: one turn of the health-check loop, or its end
Probe ==
  /\ sh.pc = "probe"
  /\ IF sh.attempt < max_attempts
       THEN \E ok \in BOOLEAN :
              sh' = IF ok THEN StageDone(sh, "start_yuzu", "succeeded")
                    ELSE LET s == [sh EXCEPT !.probesFailed = @ + 1, !.attempt = @ + 1] IN
                         IF sh.arithErrexit /\ ArithStatus(sh.attempt) # 0
                           THEN StageExit(s, "start_yuzu", ArithStatus(sh.attempt))
                           ELSE s
       ELSE sh' = StageExit(sh, "start_yuzu", 1)
  /\ ShFrame

\* lines 225-258
ExtractScreenshots ==
  /\ sh.pc = "extract_screenshots"
  /\ LET s == Called(sh, "extract_screenshots") IN
       \E ok \in BOOLEAN :
         sh' = IF sh.SKIP_EXTRACT
                 THEN (IF ok THEN StageDone(s, "extract_screenshots", "skipped")
                       ELSE StageExit(s, "extract_screenshots", 1))
               ELSE IF ~sh.XCRESULT_PATH THEN StageExit(s, "extract_screenshots", 1)
               ELSE IF ok THEN StageDone(s, "extract_screenshots", "succeeded")
               ELSE StageExit(s, "extract_screenshots", 1)
  /\ ShFrame

\* GenerateScreenshots with the exit 1 of line 270 missing
GenerateWithoutExit ==
  /\ sh.pc = "generate_screenshots"
  /\ LET s == Called(sh, "generate_screenshots") IN
       \E ok \in BOOLEAN :
         sh' = IF ok THEN StageDone(s, "generate_screenshots", "succeeded")
               ELSE StageDone(s, "generate_screenshots", "failed")
  /\ ShFrame

\* lines 260-272
GenerateScreenshots ==
  /\ sh.pc = "generate_screenshots"
  /\ LET s == Called(sh, "generate_screenshots") IN
       \E ok \in BOOLEAN :
         sh' = IF ok THEN StageDone(s, "generate_screenshots", "succeeded")
               ELSE StageExit(s, "generate_screenshots", 1)
  /\ ShFrame

\* lines 274-338, as one step (its loop is the subject of SpecOrganize)
OrganizeOutput ==
  /\ sh.pc = "organize_output"
  /\ LET s == Called(sh, "organize_output") IN
       \E ok \in BOOLEAN :
         sh' = IF ok THEN StageDone(s, "organize_output", "succeeded")
               ELSE StageExit(s, "organize_output", 1)
  /\ ShFrame

\* lines 340-360
UploadToAsc ==
  /\ sh.pc = "upload_to_asc"
  /\ LET s == Called(sh, "upload_to_asc") IN
       IF ~sh.UPLOAD
         THEN sh' = StageDone(s, "upload_to_asc", "skipped")
         ELSE \E ok \in BOOLEAN :
                sh' = IF ok THEN StageDone(s, "upload_to_asc", "succeeded")
                      ELSE StageExit(s, "upload_to_asc", 1)
  /\ ShFrame

\* lines 362-381; docker compose down cannot succeed without Docker
StopYuzu ==
  /\ sh.pc = "stop_yuzu"
  /\ LET s == Called(sh, "stop_yuzu") IN
       IF sh.SKIP_CLEANUP
         THEN sh' = StageDone([s EXCEPT !.DOCKER_RUNNING = FALSE], "stop_yuzu", "skipped")
         ELSE \E ok \in (IF sh.DOCKER_AVAILABLE THEN BOOLEAN ELSE {FALSE}) :
                sh' = IF ok
                        THEN StageDone([ComposeDown(s, TRUE) EXCEPT !.DOCKER_RUNNING = FALSE],
                                       "stop_yuzu", "succeeded")
                        ELSE StageExit(ComposeDown(s, FALSE), "stop_yuzu", 1)
  /\ ShFrame

\* lines 383-417
PrintSummary ==
  /\ sh.pc = "print_summary"
  /\ sh' = StageDone(Called(sh, "print_summary"), "print_summary", "succeeded")
  /\ ShFrame

\* lines 471-475 and the end of the script
Banner ==
  /\ sh.pc = "banner"
  /\ sh' = [sh EXCEPT !.banner = TRUE, !.status = 0, !.pc = "cleanup"]
  /\ ShFrame

\* Cleanup with no trap set: the script just ends
CleanupNotTrapped ==
  /\ sh.pc = "cleanup"
  /\ sh' = [sh EXCEPT !.pc = "exited"]
  /\ ShFrame

\* lines 68-86: the EXIT trap
Cleanup ==
  /\ sh.pc = "cleanup"
  /\ IF sh.DOCKER_RUNNING /\ ~sh.SKIP_CLEANUP
       THEN \E ok \in BOOLEAN : sh' = [ComposeDown(sh, ok) EXCEPT !.pc = "exited"]
       ELSE sh' = [sh EXCEPT !.pc = "exited"]
  /\ ShFrame

InitPipelineOnly ==
  /\ InitSh
  /\ NoRun
  /\ pathSt = NoPath
  /\ ui = NoUI
  /\ det = NoDet
  /\ att = NoAtt
  /\ canvas = NoCanvas

NextPipeline ==
  \/ CheckPrereqs
  \/ StartYuzu
  \/ Probe
  \/ ExtractScreenshots
  \/ GenerateScreenshots
  \/ OrganizeOutput
  \/ UploadToAsc
  \/ StopYuzu
  \/ PrintSummary
  \/ Banner
  \/ Cleanup

SpecPipeline == InitPipelineOnly /\ [][NextPipeline]_vars

C36_HealthCheckTriesThirtyTimes ==
  /\ (sh.containerStarted /\ sh.result["start_yuzu"] = "failed") =>
        sh.probesFailed = max_attempts
  /\ sh.probesFailed <= max_attempts
  /\ sh.pc = "probe" => sh.attempt = sh.probesFailed

\* C37: when the pipeline has ended after it started the container and
\* --skip-cleanup was not given, docker compose down has been run, and the
\* container is still up only if every such command failed; with
\* --skip-cleanup docker compose down is never run.
C37_ContainerStoppedOnEveryExit ==
  /\ sh.SKIP_CLEANUP => (sh.downCalls = 0 /\ (sh.containerStarted => sh.containerUp))
  /\ (sh.pc = "exited" /\ sh.containerStarted /\ ~sh.SKIP_CLEANUP) =>
       /\ sh.downCalls >= 1
       /\ sh.containerUp => sh.downFailed = sh.downCalls
  /\ sh.downCalls <= 2

\* the pipeline ended at a failed generation and the trap stopped the container
C37_Witness ==
  /\ sh.pc = "exited"
  /\ sh.containerStarted
  /\ ~sh.SKIP_CLEANUP
  /\ sh.result["generate_screenshots"] = "failed"
  /\ sh.downCalls = 1
  /\ ~sh.containerUp

(***************************************************************************)
(* organize_output of pipeline.sh (lines 274-338; specification            *)
(* SpecOrganize).  The generated output is a set of PNG files, each under  *)
(* a locale folder and a size folder; names are sequences of characters.   *)
(***************************************************************************)
OrgLocales == <<"de", "en">>

OrgSizes == << <<"b", "_", "c">>, <<"c">> >>

OrgIds == << <<"a">>, <<"a", "_", "b">> >>

\* the files the output may hold, in the order the three loops meet them
OrgFiles ==
  [k \in 0..7 |-> [locale |-> OrgLocales[(k \div 4) + 1],
                   size |-> OrgSizes[((k \div 2) % 2) + 1],
                   id |-> OrgIds[(k % 2) + 1]]]

RECURSIVE OrgListing(_, _)
OrgListing(tree, k) ==
  IF k > 7 THEN <<>>
  ELSE (IF OrgFiles[k] \in tree THEN <<OrgFiles[k]>> ELSE <<>>) \o OrgListing(tree, k + 1)

\* lines 326-328: ${screenshot_id}_${size_folder}.png under the locale
DestFile(f) == <<f.locale, f.id \o <<"_">> \o f.size \o <<".", "p", "n", "g">> >>

InitOrg ==
  \E tree \in SUBSET {OrgFiles[k] : k \in 0..7}, errexit \in BOOLEAN :
    sh = [pc |-> "list",
          arithErrexit |-> errexit,   \* set -e acts on (( )) commands
          tree |-> tree,              \* the PNG files of the generated output
          todo |-> <<>>,              \* the files the loops have still to meet
          copied |-> <<>>,            \* the files cp was run on, in order
          dest |-> {},                \* the destination: [file, from]
          total_files |-> 0,
          ioFailed |-> FALSE,         \* mkdir or cp failed
          status |-> -1]

\* lines 276-305: the checks before the loops
OrganizeList ==
  /\ sh.pc = "list"
  /\ sh' = IF sh.tree = {}
             THEN [sh EXCEPT !.status = 1, !.pc = "exited"]
             ELSE [sh EXCEPT !.todo = OrgListing(sh.tree, 0), !.pc = "copy"]
  /\ ShFrame

\* lines 321-331: one turn of the innermost loop
OrganizeCopy ==
  /\ sh.pc = "copy"
  /\ sh.todo # <<>>
  /\ LET f == Head(sh.todo) IN
       \E ok \in BOOLEAN :
         sh' = IF ~ok THEN [sh EXCEPT !.ioFailed = TRUE, !.status = 1, !.pc = "exited"]
               ELSE LET s == [sh EXCEPT !.todo = Tail(@),
                                        !.copied = Append(@, f),
                                        !.dest = {d \in @ : d.file # DestFile(f)}
                                                   \cup {[file |-> DestFile(f), from |-> f]},
                                        !.total_files = @ + 1]
                    IN  IF sh.arithErrexit /\ ArithStatus(sh.total_files) # 0
                          THEN [s EXCEPT !.status = ArithStatus(sh.total_files), !.pc = "exited"]
                          ELSE s
  /\ ShFrame

\* lines 333-338: the loops are over, the total is reported
OrganizeReturn ==
  /\ sh.pc = "copy"
  /\ sh.todo = <<>>
  /\ sh' = [sh EXCEPT !.status = 0, !.pc = "returned"]
  /\ ShFrame

InitOrganizeOnly ==
  /\ InitOrg
  /\ NoRun
  /\ pathSt = NoPath
  /\ ui = NoUI
  /\ det = NoDet
  /\ att = NoAtt
  /\ canvas = NoCanvas

NextOrganize ==
  \/ OrganizeList
  \/ OrganizeCopy
  \/ OrganizeReturn

SpecOrganize == InitOrganizeOnly /\ [][NextOrganize]_vars

\* C38: when organize_output has ended, with at least one PNG in the output
\* and no failure of cp, it has returned with status 0, cp was run exactly
\* once on every PNG of the output, every PNG has its copy in the destination,
\* and total_files is the number of files copied.
C38_EveryFileCopiedOnce ==
  (sh.pc \in {"returned", "exited"} /\ sh.tree # {} /\ ~sh.ioFailed) =>
    /\ sh.pc = "returned"
    /\ sh.status = 0
    /\ \A f \in sh.tree :
         /\ Cardinality({i \in 1..Len(sh.copied) : sh.copied[i] = f}) = 1
         /\ [file |-> DestFile(f), from |-> f] \in sh.dest
    /\ sh.total_files = Len(sh.copied)

(***************************************************************************)
(* The loop of extract-screenshots.sh (README.md:459-523; specification    *)
(* SpecExtract).  The script runs under set -e (README.md:339); an         *)
(* attachment is the name of a PNG file without its extension.             *)
(***************************************************************************)
LowerCase ==
  {"a", "b", "c", "d", "e", "f", "g", "h", "i", "j", "k", "l", "m",
   "n", "o", "p", "q", "r", "s", "t", "u", "v", "w", "x", "y", "z"}

Digits == {"0", "1", "2", "3", "4", "5", "6", "7", "8", "9"}

SUPPORTED_LOCALES == {<<"e", "n">>, <<"f", "r">>, <<"d", "e">>, <<"e", "s">>, <<"i", "t">>, <<"r", "o">>}

\* get_config_id; the empty string is <<>>
get_config_id(number) ==
  CASE number = <<"0", "2">> -> "vehicle-list"
    [] number = <<"0", "4">> -> "vehicle-details"
    [] number = <<"0", "6">> -> "event-list"
    [] number = <<"0", "7">> -> "expense-list"
    [] number = <<"0", "8">> -> "expense-chart"
    [] number = <<"0", "9">> -> "fuel-calculator"
    [] OTHER -> ""

\* [[ $filename =~ ^([a-z]{2})-([0-9]{2})$ ]]
MatchesFormat(name) ==
  /\ Len(name) = 5
  /\ name[1] \in LowerCase /\ name[2] \in LowerCase
  /\ name[3] = "-"
  /\ name[4] \in Digits /\ name[5] \in Digits

\* the attachments a bundle may hold, in the order of the glob
AttachmentNames ==
  << <<"E", "N", "-", "0", "2">>,
     <<"d", "e", "-", "0", "9">>,
     <<"e", "n", "-", "0", "2">>,
     <<"e", "n", "-", "0", "3">>,
     <<"e", "n", "0", "2">>,
     <<"f", "r", "-", "0", "4">>,
     <<"x", "x", "-", "0", "2">> >>

RECURSIVE Attachments(_, _)
Attachments(present, k) ==
  IF k > Len(AttachmentNames) THEN <<>>
  ELSE (IF AttachmentNames[k] \in present THEN <<AttachmentNames[k]>> ELSE <<>>)
       \o Attachments(present, k + 1)

InitExt ==
  \E present \in SUBSET {AttachmentNames[k] : k \in 1..Len(AttachmentNames)},
     errexit \in BOOLEAN :
    sh = [pc |-> "loop",
          arithErrexit |-> errexit,        \* set -e acts on (( )) commands
          attachments |-> present,
          todo |-> Attachments(present, 1), \* the files the loop has still to meet
          raw |-> {},                      \* raw/{locale}/{id}.png: [locale, id, from]
          EXTRACTED_COUNT |-> 0,
          SKIPPED_COUNT |-> 0,
          ioFailed |-> FALSE,              \* mkdir or cp failed
          status |-> -1]

\* the counter was incremented by ((n++)) from the value old
AfterIncrement(s, old) ==
  IF s.arithErrexit /\ ArithStatus(old) # 0
    THEN [s EXCEPT !.status = ArithStatus(old), !.pc = "exited"]
    ELSE s

\* README.md:462-509: one turn of the loop
ExtractFile ==
  /\ sh.pc = "loop"
  /\ sh.todo # <<>>
  /\ LET name == Head(sh.todo)
         s == [sh EXCEPT !.todo = Tail(@)]
         locale == SubSeq(name, 1, 2)
         number == SubSeq(name, 4, 5)
     IN  IF MatchesFormat(name) /\ locale \in SUPPORTED_LOCALES /\ get_config_id(number) # ""
           THEN \E ok \in BOOLEAN :
                  sh' = IF ~ok
                          THEN [s EXCEPT !.ioFailed = TRUE, !.status = 1, !.pc = "exited"]
                          ELSE AfterIncrement(
                                 [s EXCEPT !.raw = {r \in @ : r.locale # locale
                                                       \/ r.id # get_config_id(number)}
                                                     \cup {[locale |-> locale,
                                                            id |-> get_config_id(number),
                                                            from |-> name]},
                                           !.EXTRACTED_COUNT = @ + 1],
                                 sh.EXTRACTED_COUNT)
           ELSE sh' = AfterIncrement([s EXCEPT !.SKIPPED_COUNT = @ + 1], sh.SKIPPED_COUNT)
  /\ ShFrame

\* README.md:511-523: the summary and the check of the extracted count
ExtractFinish ==
  /\ sh.pc = "loop"
  /\ sh.todo = <<>>
  /\ sh' = [sh EXCEPT !.status = IF sh.EXTRACTED_COUNT = 0 THEN 1 ELSE 0, !.pc = "exited"]
  /\ ShFrame

InitExtractOnly ==
  /\ InitExt
  /\ NoRun
  /\ pathSt = NoPath
  /\ ui = NoUI
  /\ det = NoDet
  /\ att = NoAtt
  /\ canvas = NoCanvas

NextExtract ==
  \/ ExtractFile
  \/ ExtractFinish

SpecExtract == InitExtractOnly /\ [][NextExtract]_vars

\* the attachments named {locale}-{number} with a supported locale and a
\* mapped number
WellFormed(name) ==
  /\ MatchesFormat(name)
  /\ SubSeq(name, 1, 2) \in SUPPORTED_LOCALES
  /\ get_config_id(SubSeq(name, 4, 5)) # ""

\* C39: when the script has ended without a failure of mkdir or cp, it has
\* met every attachment, counted every one that is not well-formed as
\* skipped, copied every well-formed one to raw/{locale}/{id}.png, and its
\* exit status is not zero exactly when no screenshot was extracted.
C39_EveryAttachmentProcessed ==
  (sh.pc = "exited" /\ ~sh.ioFailed) =>
    /\ sh.todo = <<>>
    /\ sh.SKIPPED_COUNT = Cardinality({n \in sh.attachments : ~WellFormed(n)})
    /\ sh.EXTRACTED_COUNT = Cardinality({n \in sh.attachments : WellFormed(n)})
    /\ \A n \in sh.attachments :
         WellFormed(n) =>
           [locale |-> SubSeq(n, 1, 2), id |-> get_config_id(SubSeq(n, 4, 5)), from |-> n]
             \in sh.raw
    /\ sh.status # 0 <=> sh.EXTRACTED_COUNT = 0

====
